---- MODULE Spec2Model ----
(***************************************************************************)
(* Model of the planning engine of app/services/solver.py: Simulation.run, *)
(* the fleet tournament optimize_fleet, the daily planner plan_day and the *)
(* distance oracle get_real_road_distance.                                 *)
(*                                                                         *)
(* Fixed-point units (the source computes in floats):                      *)
(*   weights and loads   tenths of a kilogram                              *)
(*   distances           kilometres                                        *)
(*   hours               hundredths of an hour                             *)
(*   money               euro cents                                        *)
(*   urgency scores      thousandths                                       *)
(* Farms lie on the meridian of the slaughterhouse; a latitude is given in *)
(* the unit for which the fallback estimate (great circle times 1.3) of    *)
(* one unit of latitude difference is one kilometre.                       *)
(***************************************************************************)
EXTENDS Integers, Sequences, FiniteSets, TLC

\* ---------------------------------------------------------------- constants
SIMULATION_DAYS == 14
WORK_DAYS == {0, 1, 2, 3, 4}
MAX_STOPS == 3
MAX_DAILY_HOURS == 800
AVG_SPEED_KMH == 50
SERVICE_TIME_PER_STOP == 50
UNLOADING_TIME_SLAUGHTERHOUSE == 50
USE_REAL_ROADS_API == TRUE
PRICE_PER_KG == 156
FIXED_COST_TRUCK_WEEKLY == 200000
COST_PER_KM_SMALL == 115
COST_PER_KM_LARGE == 125
PENALTY_FACTOR_MILD == 15
PENALTY_FACTOR_HARSH == 20
PANIC_THRESHOLD_WEIGHT == 1180
OPTIMAL_MIN_WEIGHT == 1080
SLAUGHTERHOUSE_LOC == 0
SLAUGHTERHOUSE_CAPACITY == 2000
INITIAL_LAST_VISIT == -999

\* ------------------------------------------------------------------- bounds
\* Number of initial states of each pseudo-random generator that are explored.
NumSeeds == 2

\* ------------------------------------------------------------------ helpers
Abs(x) == IF x < 0 THEN -x ELSE x

Min(a, b) == IF a < b THEN a ELSE b

None == [none |-> TRUE]

\* -float('inf') of optimize_fleet, and a finite float
MinusInf == [inf |-> TRUE, v |-> 0]

Fin(x) == [inf |-> FALSE, v |-> x]

\* ------------------------------------------------------------ scenario data
\* The contents of scenario_data.json (its "farms" array) together with the
\* road network around it: the routing service answers the fallback estimate
\* of a leg plus road_extra kilometres.
FarmData(lat, inv, w) == [lat |-> lat, inventory |-> inv, avg_weight |-> w]

\* no farm at all
WorldEmpty == [farms |-> << >>, road_extra |-> 0]

\* small farms close to the hub, one of them under weight, a big one, a heavy
\* one whose round trip takes a whole day, and a farther one that gets into
\* panic in the second week
WorldNear ==
    [farms |-> << FarmData(2, 20, 1100), FarmData(3, 25, 1095),
                  FarmData(-4, 40, 1040), FarmData(5, 20, 1090),
                  FarmData(6, 150, 1085), FarmData(175, 30, 1175),
                  FarmData(200, 30, 1100) >>,
     road_extra |-> 0]

\* heavy farms far from the hub, on slow roads
WorldFar ==
    [farms |-> << FarmData(150, 40, 1190), FarmData(160, 120, 1185) >>,
     road_extra |-> 10]

\* fourteen heavy farms of 165 animals next to the hub
WorldBig ==
    [farms |-> [i \in 1..14 |-> FarmData(1 + (i % 2), 165, 1185)],
     road_extra |-> 0]

Worlds == << WorldEmpty, WorldNear, WorldFar, WorldBig >>

\* What random.normalvariate(0.8, 0.1) returns, draw after draw
GainStream == << 8, 7, 9, 8, 9 >>

\* What np.random.normal(avg, 5.0, n) returns, batch after batch: every
\* animal of a batch deviates from the mean by the same amount
DevStream == << 0, -60, 40 >>

Draw(stream, rng, k) == stream[((rng + k) % Len(stream)) + 1]


\* -------------------------------------------------------------------- state
VARIABLES
    raw_farm_data,        \* Simulation.raw_farm_data, read from the scenario file
    road_extra,           \* the road network of the routing service (environment)
    rng_growth,           \* state of the generator behind random.normalvariate
    rng_revenue,          \* state of the generator behind np.random.normal
    farms,                \* Simulation.farms
    trucks,               \* Simulation.trucks
    total_profit,         \* Simulation.total_profit
    total_penalties,      \* Simulation.total_penalties
    total_transport_cost, \* Simulation.total_transport_cost
    daily_logs,           \* Simulation.results["daily_logs"]
    CACHE_DISTANCES,      \* the module-level distance cache
    osrm_requests,        \* number of requests sent to the routing service
    last_outcome,         \* history: how the oracle's last query was answered
    ctl,                  \* position in Simulation.run / optimize_fleet
    scn,                  \* index of the composition optimize_fleet is replaying
    day,                  \* the loop variable d of the horizon loops
    max_profit,           \* optimize_fleet: max_profit
    best_scenario,        \* optimize_fleet: best_scenario
    profits,              \* history: total_profit at the end of each composition's replay
    pc,                   \* position in plan_day
    day_index,            \* plan_day: day_index
    silent,               \* plan_day: silent
    candidates,           \* plan_day: candidates (farm indices)
    slaughtered_today,    \* plan_day: slaughtered_today
    active_trucks,        \* plan_day: active_trucks (truck indices)
    truck,                \* plan_day: truck (index into trucks, 0 before the first pop)
    current_farm,         \* plan_day: current_farm
    dist_hub_direct,      \* plan_day: dist_hub_direct
    dist_accum_base,      \* plan_day: dist_accum_base
    trip_dist_km,         \* plan_day: trip_dist_km
    c_lat,                \* plan_day: c_lat of the distance loop
    leg,                  \* plan_day: the leg the distance loop is at
    est_time,             \* plan_day: est_time
    daily_log,            \* plan_day: daily_log
    ret,                  \* the value plan_day returned
    inv_before,           \* history: every farm's inventory when plan_day was called
    trips_today,          \* history: the trips plan_day committed in this call
    db_farms,             \* the store's table Farms: farm_id -> row
    db_transports,        \* the store's table Transports: transport_id -> row
    db_slaughterhouses,   \* the store's table Slaughterhouses: id -> row
    CURRENT_DAY_INDEX,    \* routers/simulation.py: the module-level day index
    response,             \* the response to the last request handled
    snapshot,             \* history: the table Farms when the server started
    requests,             \* history: the number of requests handled so far
    successes,            \* history: successful next-day calls since the last reset
    weight_in,            \* a weight given to the penalty functions
    ratios,               \* what the three penalty functions returned for it
    queries,              \* concurrent get_real_road_distance calls, by worker
    handlers              \* concurrent simulate_next_day calls, by worker

ctlVars == << ctl, scn, day, max_profit, best_scenario, profits >>

simVars == << farms, trucks, total_profit, total_penalties, total_transport_cost >>

envVars == << raw_farm_data, road_extra >>

oracleVars == << CACHE_DISTANCES, osrm_requests, last_outcome >>

frameVars == << day_index, silent, candidates, slaughtered_today, active_trucks,
                truck, current_farm, dist_hub_direct, dist_accum_base,
                trip_dist_km, c_lat, leg, est_time, daily_log, ret,
                inv_before, trips_today >>

apiVars == << db_farms, db_transports, db_slaughterhouses, CURRENT_DAY_INDEX,
             response, snapshot, requests, successes >>

penaltyVars == << weight_in, ratios >>

workerVars == << queries, handlers >>

solverVars == << raw_farm_data, road_extra, rng_growth, rng_revenue, farms, trucks,
           total_profit, total_penalties, total_transport_cost, daily_logs,
           CACHE_DISTANCES, osrm_requests, last_outcome, ctl, scn, day,
           max_profit,
           best_scenario, profits, pc, day_index, silent, candidates,
           slaughtered_today, active_trucks, truck, current_farm,
           dist_hub_direct, dist_accum_base, trip_dist_km, c_lat, leg,
           est_time, daily_log, ret, inv_before, trips_today >>

vars == << solverVars, apiVars, penaltyVars, workerVars >>

\* ------------------------------------------------------------------ classes
\* Truck.__init__
Truck(t_id, capacity_tons, truck_type) ==
    [id |-> t_id,
     capacity_kg |-> capacity_tons * 1000 * 10,
     truck_type |-> truck_type,
     cost_per_km |-> IF truck_type = "small" THEN COST_PER_KM_SMALL
                     ELSE COST_PER_KM_LARGE,
     current_load_kg |-> 0,
     pigs_loaded |-> 0,
     route |-> << >>,
     daily_hours_used |-> 0]

\* Truck.reset_daily_stats
reset_daily_stats(t) ==
    [t EXCEPT !.current_load_kg = 0, !.pigs_loaded = 0, !.route = << >>,
              !.daily_hours_used = 0]

\* Variant of reset_route: the route is not cleared
reset_route_keeps_route(t) == [t EXCEPT !.current_load_kg = 0, !.pigs_loaded = 0]

\* Truck.reset_route
reset_route(t) ==
    [t EXCEPT !.current_load_kg = 0, !.pigs_loaded = 0, !.route = << >>]

\* Farm.__init__
Farm(f_id, lat, initial_pigs, avg_weight) ==
    [id |-> f_id,
     lat |-> lat,
     inventory |-> initial_pigs,
     avg_weight |-> avg_weight,
     last_visit_day |-> INITIAL_LAST_VISIT,
     urgency_score |-> 0]

\* Farm.grow_pigs with the gain drawn
grow_pigs(f, gain) == [f EXCEPT !.avg_weight = @ + gain]

\* The compositions optimize_fleet enumerates
scenarios ==
    << <<1, 0>>, <<2, 0>>, <<3, 0>>, <<4, 0>>,
       <<1, 1>>, <<2, 1>>, <<3, 1>>,
       <<0, 1>>, <<0, 2>>, <<1, 2>> >>

\* Variant of SetupFarms: the farms are refilled but keep their visit days
SetupFarmsKeepsVisits(raw) ==
    [i \in 1..Len(raw) |->
        IF i <= Len(farms)
        THEN [Farm(i, raw[i].lat, raw[i].inventory, raw[i].avg_weight)
                 EXCEPT !.last_visit_day = farms[i].last_visit_day]
        ELSE Farm(i, raw[i].lat, raw[i].inventory, raw[i].avg_weight)]

\* Simulation.setup_scenario: the farms and the fleet it builds
SetupFarms(raw) ==
    [i \in 1..Len(raw) |->
        Farm(i, raw[i].lat, raw[i].inventory, raw[i].avg_weight)]

SetupTrucks(num_small, num_large) ==
    [i \in 1..(num_small + num_large) |->
        IF i <= num_small THEN Truck(i, 10, "small") ELSE Truck(i, 20, "large")]

setup_scenario(num_small, num_large) ==
    /\ farms' = SetupFarms(raw_farm_data)
    /\ trucks' = SetupTrucks(num_small, num_large)
    /\ total_profit' = 0
    /\ total_penalties' = 0
    /\ total_transport_cost' = 0
    /\ daily_logs' = << >>

\* ------------------------------------------------------------ pure helpers
\* Simulation.get_haversine_estimate, for two points of the hub's meridian
get_haversine_estimate(lat1, lat2) == Abs(lat2 - lat1)

\* Variant of estimate_trip_time: the service and unloading times are left out
estimate_trip_time_drive_only(total_dist_km, num_stops) ==
    (total_dist_km * 100) \div AVG_SPEED_KMH

\* Simulation.estimate_trip_time
estimate_trip_time(total_dist_km, num_stops) ==
    LET drive_time == (total_dist_km * 100) \div AVG_SPEED_KMH
        service_time == (num_stops * SERVICE_TIME_PER_STOP)
                        + UNLOADING_TIME_SLAUGHTERHOUSE
    IN  drive_time + service_time

\* The penalty of one animal in calculate_revenue_batch, in percent
BatchPenalty(w) ==
    IF 1050 <= w /\ w <= 1150 THEN 0
    ELSE IF (1000 <= w /\ w < 1050) \/ (1150 < w /\ w <= 1200)
         THEN PENALTY_FACTOR_MILD
         ELSE PENALTY_FACTOR_HARSH

\* Simulation.calculate_revenue_batch, every sampled weight being
\* avg_weight + dev: << total_revenue, total_penalty_amount >>
calculate_revenue_batch(num_pigs, avg_weight, dev) ==
    LET w == avg_weight + dev
        gross == (num_pigs * w * PRICE_PER_KG) \div 10
        pen == (gross * BatchPenalty(w)) \div 100
    IN  << gross - pen, pen >>


\* --------------------------------------------------- plan_day: its functions
\* Variant of IsCandidate: the lockout is one day short
IsCandidateSixDays(f, d) == (d - f.last_visit_day >= 6) /\ f.inventory > 0

\* The candidate filter of plan_day (the strict seven-day rule)
IsCandidate(f, d) == (d - f.last_visit_day >= 7) /\ f.inventory > 0

\* The urgency score plan_day gives a candidate
UrgencyScore(f) ==
    LET dist_est == get_haversine_estimate(SLAUGHTERHOUSE_LOC, f.lat)
    IN  IF f.avg_weight >= PANIC_THRESHOLD_WEIGHT
        THEN 1000000 + f.avg_weight * 100
        ELSE IF f.avg_weight < OPTIMAL_MIN_WEIGHT
             THEN -1000000 + f.avg_weight * 100
             ELSE f.avg_weight * PRICE_PER_KG - dist_est * 2 * 1200

\* Variant of GrowAll: the work-day gate comes before the growth step
GrowAllOnWorkDays(fs, rng) ==
    IF (day % 7) \in WORK_DAYS
    THEN [i \in 1..Len(fs) |-> grow_pigs(fs[i], Draw(GainStream, rng, i - 1))]
    ELSE fs

\* The farms after the growth step of plan_day: farm i takes draw i
GrowAll(fs, rng) ==
    [i \in 1..Len(fs) |-> grow_pigs(fs[i], Draw(GainStream, rng, i - 1))]

\* The farms after scoring: only candidates get a new score
ScoreAll(fs, d) ==
    [i \in 1..Len(fs) |->
        IF IsCandidate(fs[i], d)
        THEN [fs[i] EXCEPT !.urgency_score = UrgencyScore(fs[i])]
        ELSE fs[i]]

\* The candidate list before sorting: farm order
RECURSIVE CandidateList(_, _, _)
CandidateList(fs, d, i) ==
    IF i > Len(fs) THEN << >>
    ELSE IF IsCandidate(fs[i], d)
         THEN << i >> \o CandidateList(fs, d, i + 1)
         ELSE CandidateList(fs, d, i + 1)

\* list.sort(key=urgency_score, reverse=True): stable, descending
RECURSIVE InsertByScore(_, _, _)
InsertByScore(x, sorted, fs) ==
    IF sorted = << >> THEN << x >>
    ELSE IF fs[Head(sorted)].urgency_score >= fs[x].urgency_score
         THEN << Head(sorted) >> \o InsertByScore(x, Tail(sorted), fs)
         ELSE << x >> \o sorted

RECURSIVE SortByScore(_, _, _)
SortByScore(list, acc, fs) ==
    IF list = << >> THEN acc
    ELSE SortByScore(Tail(list), InsertByScore(Head(list), acc, fs), fs)

\* list.remove(x) and list.insert(0, x)
Remove(list, x) ==
    LET k == CHOOSE i \in 1..Len(list) :
                 list[i] = x /\ \A j \in 1..(i - 1) : list[j] # x
    IN  SubSeq(list, 1, k - 1) \o SubSeq(list, k + 1, Len(list))

\* Variant of InsertFront: the farm is not put back
InsertFrontDropped(list, x) == list

InsertFront(list, x) == << x >> \o list

\* Variant of ExpansionOption: the weight filter of the scan is left out
ExpansionOptionAnyWeight(cand, t, cur, hub_direct, accum_base) ==
    LET leg_dist == get_haversine_estimate(cur.lat, cand.lat)
        return_dist_cand == get_haversine_estimate(cand.lat, SLAUGHTERHOUSE_LOC)
        detour_km == (leg_dist + return_dist_cand) - hub_direct
        new_total_dist == accum_base + leg_dist + return_dist_cand
        new_total_time == estimate_trip_time(new_total_dist, Len(t.route) + 1)
        qual_score == (1000 - Abs(cand.avg_weight - 1100))
                      + (IF cand.avg_weight > 1180 THEN 5000 ELSE 0)
        cost_score == -(detour_km * 2 * 10)
    IN  [ok |-> /\ cand.inventory > 0
                /\ ~(leg_dist > 50 /\ detour_km > 25)
                /\ ~((t.daily_hours_used + new_total_time) > (MAX_DAILY_HOURS + 50)),
         comb |-> qual_score + cost_score,
         leg_dist |-> leg_dist,
         return_dist |-> return_dist_cand]

\* The scan of the multi-stop expansion: the best next stop among the
\* candidates, 0 when no candidate passes the filters
ExpansionOption(cand, t, cur, hub_direct, accum_base) ==
    LET leg_dist == get_haversine_estimate(cur.lat, cand.lat)
        return_dist_cand == get_haversine_estimate(cand.lat, SLAUGHTERHOUSE_LOC)
        detour_km == (leg_dist + return_dist_cand) - hub_direct
        new_total_dist == accum_base + leg_dist + return_dist_cand
        new_total_time == estimate_trip_time(new_total_dist, Len(t.route) + 1)
        qual_score == (1000 - Abs(cand.avg_weight - 1100))
                      + (IF cand.avg_weight > 1180 THEN 5000 ELSE 0)
        cost_score == -(detour_km * 2 * 10)
    IN  [ok |-> /\ cand.inventory > 0
                /\ ~(cand.avg_weight < OPTIMAL_MIN_WEIGHT)
                /\ ~(leg_dist > 50 /\ detour_km > 25)
                /\ ~((t.daily_hours_used + new_total_time) > (MAX_DAILY_HOURS + 50)),
         comb |-> qual_score + cost_score,
         leg_dist |-> leg_dist,
         return_dist |-> return_dist_cand]

\* The better of the best stop so far and candidate farm i with option o:
\* a later candidate wins only with a strictly greater combined score
BetterOf(best, i, o) ==
    IF o.ok /\ (best.farm = 0 \/ o.comb > best.comb)
    THEN [farm |-> i, comb |-> o.comb,
          leg_dist |-> o.leg_dist, return_dist |-> o.return_dist]
    ELSE best

RECURSIVE BestNext(_, _, _, _, _, _, _, _)
BestNext(cands, k, fs, t, cur, hub_direct, accum_base, best) ==
    IF k > Len(cands) THEN best
    ELSE CHOOSE r \in
             {BestNext(cands, k + 1, fs, t, cur, hub_direct, accum_base, b) :
                b \in {BetterOf(best, cands[k],
                          ExpansionOption(fs[cands[k]], t, cur, hub_direct,
                                          accum_base))}} : TRUE

NoBest == [farm |-> 0, comb |-> 0, leg_dist |-> 0, return_dist |-> 0]

\* What the seed stop loads
SeedTake(t, f, slaughtered) ==
    LET pigs_cap == t.capacity_kg \div f.avg_weight
        pigs_take == Min(pigs_cap, f.inventory)
        rem_slaughter == SLAUGHTERHOUSE_CAPACITY - slaughtered
    IN  Min(pigs_take, rem_slaughter)

\* Variant of ExpansionTake: the load already on the truck is not deducted
ExpansionTakeFullCapacity(t, f, slaughtered) ==
    LET p_cap == t.capacity_kg \div f.avg_weight
        p_take == Min(p_cap, f.inventory)
    IN  Min(p_take, SLAUGHTERHOUSE_CAPACITY - slaughtered - t.pigs_loaded)

\* What a stop added by the expansion loads
ExpansionTake(t, f, slaughtered) ==
    LET rem_kg == t.capacity_kg - t.current_load_kg
        p_cap == rem_kg \div f.avg_weight
        p_take == Min(p_cap, f.inventory)
    IN  Min(p_take, SLAUGHTERHOUSE_CAPACITY - slaughtered - t.pigs_loaded)

\* Variant of CommitTake: the slaughterhouse's remaining capacity is ignored
CommitTakeNoCap(f, remaining_cap_kg, slaughtered, final_pigs_this_trip) ==
    LET p_cap == remaining_cap_kg \div f.avg_weight
    IN  Min(p_cap, f.inventory)

\* What the commit step loads at one farm of the route
CommitTake(f, remaining_cap_kg, slaughtered, final_pigs_this_trip) ==
    LET p_cap == remaining_cap_kg \div f.avg_weight
        p_take == Min(p_cap, f.inventory)
        rem_global == SLAUGHTERHOUSE_CAPACITY - slaughtered - final_pigs_this_trip
    IN  Min(p_take, rem_global)

\* Variant of CommitFarm: the inventory is not decremented
CommitFarmKeepsInventory(f, p_take, d) == [f EXCEPT !.last_visit_day = d]

\* The farm the commit step has loaded p_take animals from
CommitFarm(f, p_take, d) ==
    [f EXCEPT !.inventory = @ - p_take, !.last_visit_day = d]

\* One pass of the loop "Recalculate exact loads": the stop at farm i
CommitStop(acc, i) ==
    LET f == acc.farms[i]
        p_take == CommitTake(f, acc.remaining_cap_kg, slaughtered_today,
                             acc.final_pigs)
    IN  IF p_take > 0
        THEN [farms |-> [acc.farms EXCEPT ![i] = CommitFarm(f, p_take, day_index)],
              remaining_cap_kg |-> acc.remaining_cap_kg - (p_take * f.avg_weight),
              current_load_kg |-> acc.current_load_kg + (p_take * f.avg_weight),
              final_pigs |-> acc.final_pigs + p_take,
              loads |-> Append(acc.loads, p_take)]
        ELSE [acc EXCEPT !.loads = Append(@, 0)]

\* The loop "Recalculate exact loads" over the route, from stop k on
RECURSIVE CommitLoads(_, _, _)
CommitLoads(route, k, acc) ==
    IF k > Len(route) THEN acc
    ELSE CHOOSE r \in
             {CommitLoads(route, k + 1, next) :
                next \in {CommitStop(acc, route[k])}} : TRUE

\* Simulation.process_truck_trip: the trip record and its amounts
TripRecord(t, fs, precalc_dist_km, trip_duration, dev) ==
    LET load_factor == IF t.capacity_kg > 0
                       THEN (t.current_load_kg * 1000) \div t.capacity_kg
                       ELSE 0
        trip_cost == (precalc_dist_km * t.cost_per_km * load_factor) \div 1000
        sum_w == LET S[k \in 0..Len(t.route)] ==
                         IF k = 0 THEN 0 ELSE S[k - 1] + fs[t.route[k]].avg_weight
                 IN  S[Len(t.route)]
        avg_w_route == sum_w \div Len(t.route)
        rp == calculate_revenue_batch(t.pigs_loaded, avg_w_route, dev)
    IN  [truck_id |-> t.id,
         route |-> [k \in 1..Len(t.route) |-> fs[t.route[k]].id],
         trip_duration_hours |-> trip_duration,
         distance_km |-> precalc_dist_km,
         pigs_delivered |-> t.pigs_loaded,
         load_pct |-> load_factor \div 10,
         trip_cost |-> trip_cost,
         revenue |-> rp[1],
         penalty |-> rp[2],
         profit |-> rp[1] - trip_cost]

\* --------------------------------------------------------- distance oracle
\* The cache key of get_real_road_distance
CacheKey(lat1, lat2) == << lat1, lat2 >>

\* What a request to the routing service can end in
Outcomes ==
    {"routed", "timeout", "refused", "status", "no_routes", "malformed"}

\* Variant of get_real_road_distance: the handler catches timeouts and
\* connection errors only, a body that does not parse raises to the caller
get_real_road_distance_narrow_except(lat1, lat2, outcome) ==
    LET cache_key == CacheKey(lat1, lat2)
        fallback_dist == get_haversine_estimate(lat1, lat2)
    IN  IF cache_key \in DOMAIN CACHE_DISTANCES
        THEN [dist |-> CACHE_DISTANCES[cache_key], cache |-> CACHE_DISTANCES,
              sent |-> 0, how |-> "hit", raised |-> FALSE]
        ELSE IF outcome = "routed"
        THEN [dist |-> fallback_dist + road_extra,
              cache |-> CACHE_DISTANCES @@ (cache_key :> (fallback_dist + road_extra)),
              sent |-> 1, how |-> outcome, raised |-> FALSE]
        ELSE IF outcome = "malformed"
        THEN [dist |-> 0, cache |-> CACHE_DISTANCES, sent |-> 1,
              how |-> outcome, raised |-> TRUE]
        ELSE [dist |-> fallback_dist,
              cache |-> CACHE_DISTANCES @@ (cache_key :> fallback_dist),
              sent |-> 1, how |-> outcome, raised |-> FALSE]

\* Variant of get_real_road_distance: a fallback is returned but not cached
get_real_road_distance_fallback_uncached(lat1, lat2, outcome) ==
    LET cache_key == CacheKey(lat1, lat2)
        fallback_dist == get_haversine_estimate(lat1, lat2)
    IN  IF cache_key \in DOMAIN CACHE_DISTANCES
        THEN [dist |-> CACHE_DISTANCES[cache_key], cache |-> CACHE_DISTANCES,
              sent |-> 0, how |-> "hit", raised |-> FALSE]
        ELSE IF outcome = "routed"
        THEN [dist |-> fallback_dist + road_extra,
              cache |-> CACHE_DISTANCES @@ (cache_key :> (fallback_dist + road_extra)),
              sent |-> 1, how |-> outcome, raised |-> FALSE]
        ELSE [dist |-> fallback_dist, cache |-> CACHE_DISTANCES,
              sent |-> 1, how |-> outcome, raised |-> FALSE]

\* Simulation.get_real_road_distance under one outcome of the request it may
\* send: the distance returned, the cache afterwards, the requests sent, how
\* the query was answered, and whether an exception reached the caller (the
\* handler "except Exception" lets none through)
get_real_road_distance(lat1, lat2, outcome) ==
    LET cache_key == CacheKey(lat1, lat2)
        fallback_dist == get_haversine_estimate(lat1, lat2)
    IN  IF ~USE_REAL_ROADS_API
        THEN [dist |-> fallback_dist, cache |-> CACHE_DISTANCES, sent |-> 0,
              how |-> "off", raised |-> FALSE]
        ELSE IF cache_key \in DOMAIN CACHE_DISTANCES
        THEN [dist |-> CACHE_DISTANCES[cache_key], cache |-> CACHE_DISTANCES,
              sent |-> 0, how |-> "hit", raised |-> FALSE]
        ELSE IF outcome = "routed"
        THEN [dist |-> fallback_dist + road_extra,
              cache |-> CACHE_DISTANCES @@ (cache_key :> (fallback_dist + road_extra)),
              sent |-> 1, how |-> outcome, raised |-> FALSE]
        ELSE [dist |-> fallback_dist,
              cache |-> CACHE_DISTANCES @@ (cache_key :> fallback_dist),
              sent |-> 1, how |-> outcome, raised |-> FALSE]


\* ------------------------------------------------------- plan_day: its steps
\* plan_day(d, s) from its call to the start of the multi-trip loop: growth,
\* the work-day gate, candidates, scoring, sorting, the truck pool
PlanDay(d, s) ==
    LET grown == GrowAll(farms, rng_growth)
        scored == ScoreAll(grown, d)
    IN  /\ pc = "idle"
        /\ day_index' = d
        /\ silent' = s
        /\ rng_growth' = (rng_growth + Len(farms)) % Len(GainStream)
        /\ inv_before' = [i \in 1..Len(farms) |-> farms[i].inventory]
        /\ trips_today' = << >>
        /\ IF (d % 7) \notin WORK_DAYS
           THEN /\ farms' = grown
                /\ ret' = None
                /\ pc' = "returned"
                /\ UNCHANGED << trucks, candidates, slaughtered_today,
                                active_trucks, daily_log >>
           ELSE /\ farms' = scored
                /\ daily_log' = [day |-> d + 1, trucks_ops |-> << >>,
                                 total_processed |-> 0, daily_profit |-> 0]
                /\ candidates' = SortByScore(CandidateList(grown, d, 1), << >>, scored)
                /\ slaughtered_today' = 0
                /\ trucks' = [i \in 1..Len(trucks) |-> reset_daily_stats(trucks[i])]
                /\ active_trucks' = [i \in 1..Len(trucks) |-> i]
                /\ pc' = "loop"
                /\ UNCHANGED ret
        /\ UNCHANGED << truck, current_farm, dist_hub_direct, dist_accum_base,
                        trip_dist_km, c_lat, leg, est_time >>
        /\ UNCHANGED << total_profit, total_penalties, total_transport_cost,
                        daily_logs, rng_revenue >>
        /\ UNCHANGED envVars
        /\ UNCHANGED << apiVars, penaltyVars, workerVars >>
        /\ UNCHANGED oracleVars

\* The condition of the multi-trip loop, with the break on its first line
LoopContinues ==
    /\ candidates # << >>
    /\ slaughtered_today < SLAUGHTERHOUSE_CAPACITY
    /\ active_trucks # << >>
    /\ ~(farms[Head(candidates)].urgency_score < 0)

\* The loop ends and plan_day returns the daily log
LoopExit ==
    /\ pc = "loop"
    /\ ~LoopContinues
    /\ ret' = daily_log
    /\ pc' = "returned"
    /\ UNCHANGED << day_index, silent, candidates, slaughtered_today,
                    active_trucks, truck, current_farm, dist_hub_direct,
                    dist_accum_base, trip_dist_km, c_lat, leg, est_time,
                    daily_log, inv_before, trips_today >>
    /\ UNCHANGED << simVars, daily_logs, rng_growth, rng_revenue, ctlVars >>
    /\ UNCHANGED envVars
    /\ UNCHANGED << apiVars, penaltyVars, workerVars >>
    /\ UNCHANGED oracleVars

\* A truck is popped that has no hours left: it leaves the pool
LoopSkipTruck ==
    /\ pc = "loop"
    /\ LoopContinues
    /\ LET t == Head(active_trucks)
       IN  /\ reset_route(trucks[t]).daily_hours_used >= MAX_DAILY_HOURS
           /\ truck' = t
           /\ trucks' = [trucks EXCEPT ![t] = reset_route(@)]
    /\ active_trucks' = Tail(active_trucks)
    /\ pc' = "loop"
    /\ UNCHANGED << day_index, silent, candidates, slaughtered_today,
                    current_farm, dist_hub_direct, dist_accum_base,
                    trip_dist_km, c_lat, leg, est_time, daily_log, ret,
                    inv_before, trips_today >>
    /\ UNCHANGED << farms, total_profit, total_penalties, total_transport_cost,
                    daily_logs, rng_growth, rng_revenue, ctlVars >>
    /\ UNCHANGED envVars
    /\ UNCHANGED << apiVars, penaltyVars, workerVars >>
    /\ UNCHANGED oracleVars

\* The truck after the seed stop f was put on its route
SeedTruck(t, f, slaughtered) ==
    LET pigs_take == SeedTake(t, farms[f], slaughtered)
    IN  [reset_route(t) EXCEPT !.route = Append(@, f),
                               !.pigs_loaded = pigs_take,
                               !.current_load_kg = pigs_take * farms[f].avg_weight]

\* A truck is popped and seeded with the first candidate
LoopSeed ==
    /\ pc = "loop"
    /\ LoopContinues
    /\ LET t == Head(active_trucks)
           f == Head(candidates)
       IN  /\ ~(reset_route(trucks[t]).daily_hours_used >= MAX_DAILY_HOURS)
           /\ truck' = t
           /\ current_farm' = f
           /\ trucks' = [trucks EXCEPT ![t] = SeedTruck(@, f, slaughtered_today)]
           /\ dist_hub_direct' =
                  get_haversine_estimate(farms[f].lat, SLAUGHTERHOUSE_LOC)
           /\ dist_accum_base' =
                  get_haversine_estimate(SLAUGHTERHOUSE_LOC, farms[f].lat)
    /\ active_trucks' = Tail(active_trucks)
    /\ candidates' = Tail(candidates)
    /\ pc' = "expand"
    /\ UNCHANGED << day_index, silent, slaughtered_today, trip_dist_km, c_lat,
                    leg, est_time, daily_log, ret, inv_before, trips_today >>
    /\ UNCHANGED << farms, total_profit, total_penalties, total_transport_cost,
                    daily_logs, rng_growth, rng_revenue, ctlVars >>
    /\ UNCHANGED envVars
    /\ UNCHANGED << apiVars, penaltyVars, workerVars >>
    /\ UNCHANGED oracleVars

\* The condition of the multi-stop loop
ExpansionContinues(t) ==
    /\ Len(t.route) < MAX_STOPS
    /\ t.current_load_kg * 10 < t.capacity_kg * 9

\* The truck after the stop f was added by the expansion, p_take animals
AddStop(t, f, p_take) ==
    IF p_take > 0
    THEN [t EXCEPT !.route = Append(@, f),
                   !.pigs_loaded = @ + p_take,
                   !.current_load_kg = @ + p_take * farms[f].avg_weight]
    ELSE [t EXCEPT !.route = Append(@, f)]

\* One iteration of the multi-stop loop that finds a next stop
ExpandAdd ==
    /\ pc = "expand"
    /\ ExpansionContinues(trucks[truck])
    /\ \E best \in {BestNext(candidates, 1, farms, trucks[truck],
                             farms[current_farm], dist_hub_direct,
                             dist_accum_base, NoBest)} :
       LET p_take == ExpansionTake(trucks[truck], farms[best.farm],
                                   slaughtered_today)
       IN  /\ best.farm # 0
           /\ candidates' = Remove(candidates, best.farm)
           /\ current_farm' = best.farm
           /\ dist_accum_base' = dist_accum_base + best.leg_dist
           /\ dist_hub_direct' = best.return_dist
           /\ trucks' = [trucks EXCEPT ![truck] = AddStop(@, best.farm, p_take)]
           /\ pc' = IF p_take > 0 THEN "expand" ELSE "validate"
    /\ UNCHANGED << day_index, silent, slaughtered_today, active_trucks, truck,
                    trip_dist_km, c_lat, leg, est_time, daily_log, ret,
                    inv_before, trips_today >>
    /\ UNCHANGED << farms, total_profit, total_penalties, total_transport_cost,
                    daily_logs, rng_growth, rng_revenue, ctlVars >>
    /\ UNCHANGED envVars
    /\ UNCHANGED << apiVars, penaltyVars, workerVars >>
    /\ UNCHANGED oracleVars

\* The multi-stop loop ends: its condition fails or no next stop is found
ExpandEnd ==
    /\ pc = "expand"
    /\ \/ ~ExpansionContinues(trucks[truck])
       \/ BestNext(candidates, 1, farms, trucks[truck], farms[current_farm],
                   dist_hub_direct, dist_accum_base, NoBest).farm = 0
    /\ pc' = "validate"
    /\ UNCHANGED frameVars
    /\ UNCHANGED << simVars, daily_logs, rng_growth, rng_revenue, ctlVars >>
    /\ UNCHANGED envVars
    /\ UNCHANGED << apiVars, penaltyVars, workerVars >>
    /\ UNCHANGED oracleVars

\* An iteration of "Validate Time Final" starts on a non-empty route
ValidateStart ==
    /\ pc = "validate"
    /\ Len(trucks[truck].route) > 0
    /\ trip_dist_km' = 0
    /\ c_lat' = SLAUGHTERHOUSE_LOC
    /\ leg' = 1
    /\ pc' = "dist"
    /\ UNCHANGED << day_index, silent, candidates, slaughtered_today,
                    active_trucks, truck, current_farm, dist_hub_direct,
                    dist_accum_base, est_time, daily_log, ret, inv_before,
                    trips_today >>
    /\ UNCHANGED << simVars, daily_logs, rng_growth, rng_revenue, ctlVars >>
    /\ UNCHANGED envVars
    /\ UNCHANGED << apiVars, penaltyVars, workerVars >>
    /\ UNCHANGED oracleVars

\* The route is empty after backtracking: the trip is discarded and the truck
\* is not put back in the pool
ValidateDiscard ==
    /\ pc = "validate"
    /\ Len(trucks[truck].route) = 0
    /\ pc' = "loop"
    /\ UNCHANGED frameVars
    /\ UNCHANGED << simVars, daily_logs, rng_growth, rng_revenue, ctlVars >>
    /\ UNCHANGED envVars
    /\ UNCHANGED << apiVars, penaltyVars, workerVars >>
    /\ UNCHANGED oracleVars

\* One leg of the trip is measured by the distance oracle
ValidateLeg ==
    /\ pc = "dist"
    /\ \E outcome \in Outcomes :
         LET route == trucks[truck].route
             to == IF leg <= Len(route) THEN farms[route[leg]].lat
                   ELSE SLAUGHTERHOUSE_LOC
             r == get_real_road_distance(c_lat, to, outcome)
         IN  /\ trip_dist_km' = trip_dist_km + r.dist
             /\ CACHE_DISTANCES' = r.cache
             /\ osrm_requests' = osrm_requests + r.sent
             /\ last_outcome' = r.how
             /\ c_lat' = to
             /\ leg' = leg + 1
             /\ pc' = IF r.raised THEN "raised"
                      ELSE IF leg <= Len(route) THEN "dist" ELSE "check"
    /\ UNCHANGED << day_index, silent, candidates, slaughtered_today,
                    active_trucks, truck, current_farm, dist_hub_direct,
                    dist_accum_base, est_time, daily_log, ret, inv_before,
                    trips_today >>
    /\ UNCHANGED << simVars, daily_logs, rng_growth, rng_revenue, ctlVars >>
    /\ UNCHANGED envVars
    /\ UNCHANGED << apiVars, penaltyVars, workerVars >>

\* Variant of TimeFits: the hours the truck already used are not counted
TimeFitsTripOnly(t, e) == e <= MAX_DAILY_HOURS

\* Whether the trip of duration e fits in the truck's day
TimeFits(t, e) == t.daily_hours_used + e <= MAX_DAILY_HOURS

\* The measured trip fits in the truck's day: the route is accepted
ValidateAccept ==
    /\ pc = "check"
    /\ LET e == estimate_trip_time(trip_dist_km, Len(trucks[truck].route))
       IN  /\ TimeFits(trucks[truck], e)
           /\ est_time' = e
    /\ pc' = "commit"
    /\ UNCHANGED << day_index, silent, candidates, slaughtered_today,
                    active_trucks, truck, current_farm, dist_hub_direct,
                    dist_accum_base, trip_dist_km, c_lat, leg, daily_log, ret,
                    inv_before, trips_today >>
    /\ UNCHANGED << simVars, daily_logs, rng_growth, rng_revenue, ctlVars >>
    /\ UNCHANGED envVars
    /\ UNCHANGED << apiVars, penaltyVars, workerVars >>
    /\ UNCHANGED oracleVars

\* It does not fit: the last stop is removed and put back at the front of
\* the candidates
ValidateBacktrack ==
    /\ pc = "check"
    /\ LET e == estimate_trip_time(trip_dist_km, Len(trucks[truck].route))
           route == trucks[truck].route
           removed_farm == route[Len(route)]
       IN  /\ ~TimeFits(trucks[truck], e)
           /\ est_time' = e
           /\ trucks' = [trucks EXCEPT ![truck].route = SubSeq(@, 1, Len(@) - 1)]
           /\ candidates' = InsertFront(candidates, removed_farm)
    /\ pc' = "validate"
    /\ UNCHANGED << day_index, silent, slaughtered_today, active_trucks, truck,
                    current_farm, dist_hub_direct, dist_accum_base,
                    trip_dist_km, c_lat, leg, daily_log, ret, inv_before,
                    trips_today >>
    /\ UNCHANGED << farms, total_profit, total_penalties, total_transport_cost,
                    daily_logs, rng_growth, rng_revenue, ctlVars >>
    /\ UNCHANGED envVars
    /\ UNCHANGED << apiVars, penaltyVars, workerVars >>
    /\ UNCHANGED oracleVars

\* Variant of PoolAfterTrip: the truck goes to the head of the pool
PoolAfterTripFront(pool, t) == << t >> \o pool

\* active_trucks.append(truck): the truck that committed a trip goes to the
\* end of the pool
PoolAfterTrip(pool, t) == Append(pool, t)

\* Variant of LogTrip: the record is appended, the log's sums are not updated
LogTripRecordOnly(log, op_data, s) ==
    IF s THEN log ELSE [log EXCEPT !.trucks_ops = Append(@, op_data)]

\* The daily log after process_truck_trip recorded the trip
LogTrip(log, op_data, s) ==
    IF s THEN log
    ELSE [log EXCEPT !.trucks_ops = Append(@, op_data),
                     !.total_processed = @ + op_data.pigs_delivered,
                     !.daily_profit = @ + op_data.profit]

\* The accepted route is committed: hours, exact loads, inventories, the
\* day's count, process_truck_trip, and the truck goes back to the pool
Commit ==
    /\ pc = "commit"
    /\ \E done \in {CommitLoads(trucks[truck].route, 1,
                      [farms |-> farms,
                       remaining_cap_kg |-> trucks[truck].capacity_kg,
                       current_load_kg |-> 0, final_pigs |-> 0,
                       loads |-> << >>])} :
       \E t1 \in {[trucks[truck] EXCEPT
                     !.daily_hours_used = @ + est_time,
                     !.pigs_loaded = done.final_pigs,
                     !.current_load_kg = done.current_load_kg]} :
       \E op_data \in {TripRecord(t1, done.farms, trip_dist_km, est_time,
                                  Draw(DevStream, rng_revenue, 0))} :
           /\ trucks' = [trucks EXCEPT ![truck] = t1]
           /\ farms' = done.farms
           /\ slaughtered_today' = slaughtered_today + done.final_pigs
           /\ total_profit' = total_profit + op_data.profit
           /\ total_penalties' = total_penalties + op_data.penalty
           /\ total_transport_cost' = total_transport_cost + op_data.trip_cost
           /\ daily_log' = LogTrip(daily_log, op_data, silent)
           /\ trips_today' = Append(trips_today,
                                [truck |-> truck, route |-> t1.route,
                                 loads |-> done.loads,
                                 pigs |-> done.final_pigs,
                                 load_kg |-> done.current_load_kg,
                                 hours |-> est_time,
                                 profit |-> op_data.profit])
    /\ rng_revenue' = (rng_revenue + 1) % Len(DevStream)
    /\ active_trucks' = PoolAfterTrip(active_trucks, truck)
    /\ pc' = "loop"
    /\ UNCHANGED << day_index, silent, candidates, truck, current_farm,
                    dist_hub_direct, dist_accum_base, trip_dist_km, c_lat, leg,
                    est_time, ret, inv_before >>
    /\ UNCHANGED << daily_logs, rng_growth, ctlVars >>
    /\ UNCHANGED envVars
    /\ UNCHANGED << apiVars, penaltyVars, workerVars >>
    /\ UNCHANGED oracleVars


\* ------------------------------------------- Simulation.run, optimize_fleet
\* Simulation() : nothing is set up, the scenario file is loaded, both
\* generators are in some state; run() starts with optimize_fleet()
SolverInit ==
    /\ \E w \in 1..Len(Worlds) :
         /\ raw_farm_data = Worlds[w].farms
         /\ road_extra = Worlds[w].road_extra
    /\ rng_growth \in 0..(NumSeeds - 1)
    /\ rng_revenue \in 0..(NumSeeds - 1)
    /\ farms = << >>
    /\ trucks = << >>
    /\ total_profit = 0
    /\ total_penalties = 0
    /\ total_transport_cost = 0
    /\ daily_logs = << >>
    /\ CACHE_DISTANCES = [k \in {} |-> 0]
    /\ osrm_requests = 0
    /\ last_outcome = "none"
    /\ ctl = "opt_setup"
    /\ scn = 1
    /\ day = 0
    /\ max_profit = MinusInf
    /\ best_scenario = << >>
    /\ profits = << >>
    /\ pc = "idle"
    /\ day_index = 0
    /\ silent = TRUE
    /\ candidates = << >>
    /\ slaughtered_today = 0
    /\ active_trucks = << >>
    /\ truck = 0
    /\ current_farm = 0
    /\ dist_hub_direct = 0
    /\ dist_accum_base = 0
    /\ trip_dist_km = 0
    /\ c_lat = SLAUGHTERHOUSE_LOC
    /\ leg = 1
    /\ est_time = 0
    /\ daily_log = None
    /\ ret = None
    /\ inv_before = << >>
    /\ trips_today = << >>

\* The server is not running: no table, no request
ApiAtRest ==
    /\ db_farms = << >>
    /\ db_transports = << >>
    /\ db_slaughterhouses = << >>
    /\ CURRENT_DAY_INDEX = 0
    /\ response = None
    /\ snapshot = << >>
    /\ requests = 0
    /\ successes = 0

\* The threads of the server that call into the engine and the router
Workers == {"a", "b"}

\* No second thread: nothing runs concurrently
WorkersAtRest ==
    /\ queries = [w \in Workers |->
                     [pc |-> "idle", cache_key |-> << >>, dist |-> 0, how |-> "none"]]
    /\ handlers = [w \in Workers |->
                      [pc |-> "idle", stocked |-> {}, table |-> << >>,
                       shipped_by_farm |-> << >>, routes |-> << >>, index |-> 0,
                       response |-> None]]

\* No weight is being classified
PenaltyAtRest ==
    /\ weight_in = 0
    /\ ratios = None

Init == SolverInit /\ ApiAtRest /\ PenaltyAtRest /\ WorkersAtRest

planVars == << pc, day_index, silent, candidates, slaughtered_today,
               active_trucks, truck, current_farm, dist_hub_direct,
               dist_accum_base, trip_dist_km, c_lat, leg, est_time, daily_log,
               ret, inv_before, trips_today >>

\* optimize_fleet: setup_scenario(sm, lg) for the composition at hand
OptSetup ==
    /\ ctl = "opt_setup"
    /\ setup_scenario(scenarios[scn][1], scenarios[scn][2])
    /\ day' = 0
    /\ ctl' = "opt_days"
    /\ UNCHANGED << scn, max_profit, best_scenario, profits >>
    /\ UNCHANGED << planVars, rng_growth, rng_revenue >>
    /\ UNCHANGED envVars
    /\ UNCHANGED << apiVars, penaltyVars, workerVars >>
    /\ UNCHANGED oracleVars

\* optimize_fleet: self.plan_day(d, silent=True)
OptPlanDay ==
    /\ ctl = "opt_days"
    /\ day < SIMULATION_DAYS
    /\ PlanDay(day, TRUE)
    /\ UNCHANGED ctlVars

\* optimize_fleet: plan_day returned, its value is dropped
OptDayReturn ==
    /\ ctl = "opt_days"
    /\ pc = "returned"
    /\ pc' = "idle"
    /\ day' = day + 1
    /\ UNCHANGED << ctl, scn, max_profit, best_scenario, profits >>
    /\ UNCHANGED frameVars
    /\ UNCHANGED << simVars, daily_logs, rng_growth, rng_revenue >>
    /\ UNCHANGED envVars
    /\ UNCHANGED << apiVars, penaltyVars, workerVars >>
    /\ UNCHANGED oracleVars

\* Variant of IsBest: >= instead of >
IsBestOrEqual(net_profit, mp) == mp.inf \/ net_profit >= mp.v

\* net_profit > max_profit, max_profit being -inf or a number
IsBest(net_profit, mp) == mp.inf \/ net_profit > mp.v

\* optimize_fleet: the horizon of a composition is over; its net profit is
\* compared with the best so far, and the next composition is taken
OptScore ==
    /\ ctl = "opt_days"
    /\ pc = "idle"
    /\ day = SIMULATION_DAYS
    /\ LET fixed_costs == 2 * Len(trucks) * FIXED_COST_TRUCK_WEEKLY
           net_profit == total_profit - fixed_costs
           is_best == IsBest(net_profit, max_profit)
       IN  /\ max_profit' = IF is_best THEN Fin(net_profit) ELSE max_profit
           /\ best_scenario' = IF is_best THEN scenarios[scn] ELSE best_scenario
           /\ profits' = Append(profits, total_profit)
    /\ IF scn < Len(scenarios)
       THEN scn' = scn + 1 /\ ctl' = "opt_setup"
       ELSE scn' = scn /\ ctl' = "run_setup"
    /\ UNCHANGED day
    /\ UNCHANGED << planVars, simVars, daily_logs, rng_growth, rng_revenue >>
    /\ UNCHANGED envVars
    /\ UNCHANGED << apiVars, penaltyVars, workerVars >>
    /\ UNCHANGED oracleVars

\* run: setup_scenario(best_sm, best_lg)
RunSetup ==
    /\ ctl = "run_setup"
    /\ setup_scenario(best_scenario[1], best_scenario[2])
    /\ day' = 0
    /\ ctl' = "run_days"
    /\ UNCHANGED << scn, max_profit, best_scenario, profits >>
    /\ UNCHANGED << planVars, rng_growth, rng_revenue >>
    /\ UNCHANGED envVars
    /\ UNCHANGED << apiVars, penaltyVars, workerVars >>
    /\ UNCHANGED oracleVars

\* run: log = self.plan_day(d, silent=False)
RunPlanDay ==
    /\ ctl = "run_days"
    /\ day < SIMULATION_DAYS
    /\ PlanDay(day, FALSE)
    /\ UNCHANGED ctlVars

\* run: plan_day returned; a log is appended to the results
RunDayReturn ==
    /\ ctl = "run_days"
    /\ pc = "returned"
    /\ pc' = "idle"
    /\ day' = day + 1
    /\ daily_logs' = IF ret # None THEN Append(daily_logs, ret) ELSE daily_logs
    /\ UNCHANGED << ctl, scn, max_profit, best_scenario, profits >>
    /\ UNCHANGED frameVars
    /\ UNCHANGED << simVars, rng_growth, rng_revenue >>
    /\ UNCHANGED envVars
    /\ UNCHANGED << apiVars, penaltyVars, workerVars >>
    /\ UNCHANGED oracleVars

\* run: the fixed cost of two weeks is charged and the summary is made
RunSummary ==
    /\ ctl = "run_days"
    /\ pc = "idle"
    /\ day = SIMULATION_DAYS
    /\ LET total_fixed_cost == 2 * Len(trucks) * FIXED_COST_TRUCK_WEEKLY
       IN  /\ total_profit' = total_profit - total_fixed_cost
           /\ total_transport_cost' = total_transport_cost + total_fixed_cost
    /\ ctl' = "done"
    /\ UNCHANGED << scn, day, max_profit, best_scenario, profits >>
    /\ UNCHANGED << planVars, farms, trucks, total_penalties, daily_logs,
                    rng_growth, rng_revenue >>
    /\ UNCHANGED envVars
    /\ UNCHANGED << apiVars, penaltyVars, workerVars >>
    /\ UNCHANGED oracleVars

PlanStep ==
    \/ LoopExit
    \/ LoopSkipTruck
    \/ LoopSeed
    \/ ExpandAdd
    \/ ExpandEnd
    \/ ValidateStart
    \/ ValidateDiscard
    \/ ValidateLeg
    \/ ValidateAccept
    \/ ValidateBacktrack
    \/ Commit

Next ==
    \/ OptSetup
    \/ OptPlanDay
    \/ OptDayReturn
    \/ OptScore
    \/ RunSetup
    \/ RunPlanDay
    \/ RunDayReturn
    \/ RunSummary
    \/ PlanStep

Spec == Init /\ [][Next]_vars


\* plan_day is sequential code: once called it keeps taking steps
FairSpec == Spec /\ WF_vars(PlanStep)

\* ------------------------------------------------------------------ history
InSeq(x, list) == \E k \in 1..Len(list) : list[k] = x

\* plan_day is running or has just returned
Planning == pc # "idle"

WorkingDay == (day_index % 7) \in WORK_DAYS

RECURSIVE SumPigs(_)
SumPigs(trips) ==
    IF trips = << >> THEN 0 ELSE Head(trips).pigs + SumPigs(Tail(trips))

\* The animals a trip loaded at farm i
LoadedAt(trip, i) ==
    LET S[k \in 0..Len(trip.route)] ==
            IF k = 0 THEN 0
            ELSE S[k - 1] + (IF trip.route[k] = i THEN trip.loads[k] ELSE 0)
    IN  S[Len(trip.route)]

RECURSIVE LoadedToday(_, _)
LoadedToday(trips, i) ==
    IF trips = << >> THEN 0
    ELSE LoadedAt(Head(trips), i) + LoadedToday(Tail(trips), i)

\* Farm i is listed in the route of a trip committed in this call
InSomeRoute(i) == \E k \in 1..Len(trips_today) : InSeq(i, trips_today[k].route)

\* A trip is under construction for truck t
UnderConstruction(t) ==
    pc \in {"expand", "validate", "dist", "check", "commit"} /\ truck = t

\* The route of the last trip truck t committed in this call, or none
LastCommittedRoute(t) ==
    LET ks == {k \in 1..Len(trips_today) : trips_today[k].truck = t}
    IN  IF ks = {} THEN << >>
        ELSE trips_today[CHOOSE k \in ks : \A j \in ks : j <= k].route

\* ------------------------------------------------------------------- claims
\* C1: the animals loaded by all trips committed in one planned day never
\* exceed SLAUGHTERHOUSE_CAPACITY, and neither does plan_day's own count.
C1_DailyCapacity ==
    Planning =>
        /\ SumPigs(trips_today) <= SLAUGHTERHOUSE_CAPACITY
        /\ WorkingDay => slaughtered_today = SumPigs(trips_today)

\* A day on which the capacity was used up, by a last trip that got less than
\* its farm had and its truck could carry
C1_Witness ==
    /\ pc = "returned"
    /\ SumPigs(trips_today) = SLAUGHTERHOUSE_CAPACITY
    /\ \E k \in 1..Len(trips_today) :
         /\ trips_today[k].load_kg * 2 < trucks[trips_today[k].truck].capacity_kg
         /\ farms[trips_today[k].route[1]].inventory > 0

\* C2: at every point of a planned day, every truck's daily_hours_used is at
\* most MAX_DAILY_HOURS.
C2_DailyHours ==
    \A t \in 1..Len(trucks) : trucks[t].daily_hours_used <= MAX_DAILY_HOURS

\* A truck that made several trips in the day and was refused one more for
\* lack of hours
C2_Witness ==
    /\ pc = "check"
    /\ Len(LastCommittedRoute(truck)) > 0
    /\ trucks[truck].daily_hours_used > 0
    /\ ~TimeFits(trucks[truck],
                 estimate_trip_time(trip_dist_km, Len(trucks[truck].route)))

\* C3: at every point of a plan_day call, and so after it, every farm's
\* inventory is >= 0 and is its inventory at the call minus the animals the
\* trips committed so far loaded from it: route construction and
\* backtracking leave it alone.
C3_Inventory ==
    Planning =>
        \A i \in 1..Len(farms) :
            /\ farms[i].inventory >= 0
            /\ farms[i].inventory = inv_before[i] - LoadedToday(trips_today, i)

\* A route under construction after an earlier trip of the day emptied one
\* farm and left animals at another
C3_Witness ==
    /\ pc = "check"
    /\ \E i, j \in 1..Len(farms) :
         /\ LoadedToday(trips_today, i) > 0 /\ farms[i].inventory = 0
         /\ LoadedToday(trips_today, j) > 0 /\ farms[j].inventory > 0

\* C4 (as claimed): after plan_day(D) on a working day, a farm's
\* last_visit_day is D iff the farm is listed in the route of a trip
\* committed on day D.
C4_VisitedIffInRoute ==
    (pc = "returned" /\ WorkingDay) =>
        \A i \in 1..Len(farms) :
            (farms[i].last_visit_day = day_index) <=> InSomeRoute(i)

\* C5: a farm is put in the candidate set of day D iff its inventory is > 0 and
\* D - last_visit_day >= 7, and whenever animals are loaded from a farm its
\* previous visit is at least seven days old.
C5_Lockout ==
    [][/\ (pc = "idle" /\ pc' = "loop") =>
             \A i \in 1..Len(farms') :
                 InSeq(i, candidates') <=>
                     (farms'[i].inventory > 0
                      /\ day_index' - farms'[i].last_visit_day >= 7)
       /\ (pc = "commit") =>
             \A i \in 1..Len(farms) :
                 farms'[i].inventory < farms[i].inventory =>
                     /\ day_index - farms[i].last_visit_day >= 7
                     /\ farms'[i].last_visit_day = day_index
      ]_vars

\* A farm visited seven days ago that still has animals is a candidate again
C5_Witness ==
    /\ pc = "loop"
    /\ \E k \in 1..Len(candidates) :
         farms[candidates[k]].last_visit_day = day_index - 7

\* C6: at every step of route construction and for every committed trip, the
\* truck's load is at most its capacity and its route has at most MAX_STOPS
\* farms.
C6_LoadAndStops ==
    /\ \A t \in 1..Len(trucks) :
         /\ trucks[t].current_load_kg <= trucks[t].capacity_kg
         /\ Len(trucks[t].route) <= MAX_STOPS
    /\ \A k \in 1..Len(trips_today) :
         /\ trips_today[k].load_kg <= trucks[trips_today[k].truck].capacity_kg
         /\ Len(trips_today[k].route) <= MAX_STOPS

\* A route of three stops, not yet 90% full, with a fourth stop at hand
C6_Witness ==
    /\ pc = "expand"
    /\ Len(trucks[truck].route) = MAX_STOPS
    /\ trucks[truck].current_load_kg * 10 < trucks[truck].capacity_kg * 9
    /\ BestNext(candidates, 1, farms, trucks[truck], farms[current_farm],
                dist_hub_direct, dist_accum_base, NoBest).farm # 0

\* C7 (as claimed): whenever no trip is under construction for a truck, the
\* truck's route is empty.
C7_RouteEmptyUnlessConstructing ==
    \A t \in 1..Len(trucks) : ~UnderConstruction(t) => trucks[t].route = << >>

\* C7 (amended): from a plan_day call on a working day until the next
\* plan_day call, a truck for which no trip is under construction has an
\* empty route, unless it is in the pool after committing a trip: then it
\* still holds that trip's route.
C7_RouteEmptyOrLastTrip ==
    WorkingDay =>
        \A t \in 1..Len(trucks) :
            ~UnderConstruction(t) =>
                trucks[t].route =
                    IF InSeq(t, active_trucks) THEN LastCommittedRoute(t)
                    ELSE << >>

\* plan_day has returned; one truck left the pool with an empty route after
\* committing a trip, another still holds the route of its last trip
C7_Witness ==
    /\ pc = "returned"
    /\ \E t, u \in 1..Len(trucks) :
         /\ LastCommittedRoute(t) # << >> /\ trucks[t].route = << >>
         /\ trucks[u].route # << >>


C9_NoRequestInTournament ==
    ctl \in {"opt_setup", "opt_days"} => osrm_requests = 0

\* The net profit of composition i: accumulated profit minus the fixed cost
\* of two weeks for its trucks
Net(i) ==
    profits[i]
    - 2 * (scenarios[i][1] + scenarios[i][2]) * FIXED_COST_TRUCK_WEEKLY

\* The first composition, in enumeration order, of maximal net profit
FirstBest ==
    CHOOSE i \in 1..Len(scenarios) :
        /\ \A j \in 1..Len(scenarios) : Net(j) <= Net(i)
        /\ \A j \in 1..(i - 1) : Net(j) < Net(i)

\* C10: optimize_fleet returns the composition of maximal net profit, and the
\* first such composition in enumeration order when several tie.
C10_TournamentWinner ==
    ctl \in {"run_setup", "run_days", "done"} =>
        /\ best_scenario = scenarios[FirstBest]
        /\ max_profit = Fin(Net(FirstBest))

\* The tournament is over and two compositions tie for the maximal net profit
C10_Witness ==
    /\ ctl = "run_setup"
    /\ \E j \in 1..Len(scenarios) : j # FirstBest /\ Net(j) = Net(FirstBest)

\* C12: setup_scenario(s, l), after any sequence of plan_day calls, leaves the
\* loaded scenario: every farm with the inventory and weight of the scenario
\* file and last_visit_day = -999, the totals 0, the daily logs empty, and a
\* fleet of s small and l large trucks with zero hours and empty routes. The
\* scenario file's data is left alone, so the state after the call depends
\* on nothing but that data and (s, l): a second call changes nothing.
C12_SetupScenario ==
    [][(ctl \in {"opt_setup", "run_setup"} /\ ctl' # ctl) =>
          LET comp == IF ctl = "opt_setup" THEN scenarios[scn] ELSE best_scenario
          IN  /\ raw_farm_data' = raw_farm_data
              /\ Len(farms') = Len(raw_farm_data)
              /\ \A i \in 1..Len(farms') :
                   /\ farms'[i].inventory = raw_farm_data[i].inventory
                   /\ farms'[i].avg_weight = raw_farm_data[i].avg_weight
                   /\ farms'[i].lat = raw_farm_data[i].lat
                   /\ farms'[i].last_visit_day = -999
              /\ total_profit' = 0
              /\ total_penalties' = 0
              /\ total_transport_cost' = 0
              /\ daily_logs' = << >>
              /\ Len(trucks') = comp[1] + comp[2]
              /\ \A i \in 1..Len(trucks') :
                   /\ trucks'[i].truck_type
                          = IF i <= comp[1] THEN "small" ELSE "large"
                   /\ trucks'[i].capacity_kg
                          = IF i <= comp[1] THEN 100000 ELSE 200000
                   /\ trucks'[i].daily_hours_used = 0
                   /\ trucks'[i].route = << >>
                   /\ trucks'[i].current_load_kg = 0
                   /\ trucks'[i].pigs_loaded = 0
      ]_vars

\* The state right after the setup of a later composition, the horizon before
\* it having emptied farms and earned a profit
C12_Witness ==
    /\ ctl = "opt_days" /\ day = 0 /\ pc = "idle"
    /\ scn > 1
    /\ profits[scn - 1] # 0
    /\ farms # << >>
    /\ day_index = SIMULATION_DAYS - 1
    /\ \A i \in 1..Len(farms) : farms[i].inventory > 0
    /\ \A i \in 1..Len(farms) : farms[i].last_visit_day = -999

\* C13: get_real_road_distance never raises to plan_day: whatever the
\* outcome of the routing request, the distance loop goes on with a distance,
\* and after every outcome other than a 200 response with a route that
\* distance is the fallback estimate of the leg.
C13_OracleNeverRaises ==
    [][(pc = "dist") =>
          /\ pc' \in {"dist", "check"}
          /\ last_outcome' \in (Outcomes \cup {"hit"})
          /\ (last_outcome' \in (Outcomes \ {"routed"})) =>
                 trip_dist_km' = trip_dist_km + Abs(c_lat' - c_lat)
      ]_vars

\* Where roads are longer than the estimate, the body of the last response did
\* not parse, after an earlier request was answered with a route
C13_Witness ==
    /\ pc \in {"dist", "check"}
    /\ last_outcome = "malformed"
    /\ road_extra > 0
    /\ \E k \in DOMAIN CACHE_DISTANCES :
         CACHE_DISTANCES[k] = Abs(k[2] - k[1]) + road_extra

\* C14: the distance cache only grows: an entry is never removed or
\* overwritten; every query leaves its key in the cache with the value it
\* returned, whether that came from the routing service or is a fallback;
\* and a query whose key is in the cache returns the cached value and sends
\* no request.
C14_CacheMonotonic ==
    [][/\ \A k \in DOMAIN CACHE_DISTANCES :
             /\ k \in DOMAIN CACHE_DISTANCES'
             /\ CACHE_DISTANCES'[k] = CACHE_DISTANCES[k]
       /\ (pc = "dist") =>
             LET key == << c_lat, c_lat' >>
                 returned == trip_dist_km' - trip_dist_km
             IN  /\ key \in DOMAIN CACHE_DISTANCES'
                 /\ CACHE_DISTANCES'[key] = returned
                 /\ (key \in DOMAIN CACHE_DISTANCES) =>
                        /\ returned = CACHE_DISTANCES[key]
                        /\ osrm_requests' = osrm_requests
       /\ (pc # "dist") => osrm_requests' = osrm_requests
      ]_vars

\* A query answered from the cache, which holds a fallback stored after a
\* failed request next to a distance the routing service gave
C14_Witness ==
    /\ pc \in {"dist", "check"}
    /\ last_outcome = "hit"
    /\ road_extra > 0
    /\ \E k \in DOMAIN CACHE_DISTANCES : CACHE_DISTANCES[k] = Abs(k[2] - k[1])
    /\ \E k \in DOMAIN CACHE_DISTANCES :
         CACHE_DISTANCES[k] = Abs(k[2] - k[1]) + road_extra

\* C20: every plan_day call, on a working day or not, adds exactly one
\* growth step to every farm's weight, and no other step of plan_day changes
\* a weight; on a non-working day (day_index mod 7 in {5, 6}) the call
\* returns no DailyLog and changes no inventory, no last_visit_day, no truck
\* and no profit, penalty or cost total.
C20_GrowthEveryDay ==
    [][/\ (pc = "idle" /\ pc' # "idle") =>
             /\ Len(farms') = Len(farms)
             /\ \A i \in 1..Len(farms) :
                    (farms'[i].avg_weight - farms[i].avg_weight)
                        \in {GainStream[k] : k \in 1..Len(GainStream)}
             /\ (day_index' % 7) \in {5, 6} =>
                    /\ pc' = "returned"
                    /\ ret' = None
                    /\ \A i \in 1..Len(farms) :
                           /\ farms'[i].inventory = farms[i].inventory
                           /\ farms'[i].last_visit_day = farms[i].last_visit_day
                    /\ trucks' = trucks
                    /\ total_profit' = total_profit
                    /\ total_penalties' = total_penalties
                    /\ total_transport_cost' = total_transport_cost
                    /\ daily_logs' = daily_logs
       /\ (pc \notin {"idle", "returned"}) =>
             /\ Len(farms') = Len(farms)
             /\ \A i \in 1..Len(farms) :
                    farms'[i].avg_weight = farms[i].avg_weight
      ]_vars

\* A call on a Saturday has returned, the week before it having left routes
\* on trucks, visited farms and a profit
C20_Witness ==
    /\ pc = "returned"
    /\ day_index % 7 = 5
    /\ ret = None
    /\ total_profit # 0
    /\ \E t \in 1..Len(trucks) : trucks[t].route # << >>
    /\ \E i \in 1..Len(farms) : farms[i].last_visit_day = day_index - 1

\* ------------------------------------------------------- penalty functions
\* The weights the penalty functions are tried on, in tenths of a kg
MinWeight == 950
MaxWeight == 1250

\* Variant of penalty_ratio: the upper bound of the 15% band is open
penalty_ratio_open_upper(weight) ==
    IF 1050 <= weight /\ weight <= 1150 THEN 0
    ELSE IF 1000 <= weight /\ weight < 1200 THEN 15
    ELSE 20

\* routers/simulation.py penalty_ratio, in percent
penalty_ratio(weight) ==
    IF 1050 <= weight /\ weight <= 1150 THEN 0
    ELSE IF 1000 <= weight /\ weight <= 1200 THEN 15
    ELSE 20

\* models/farm.py Farm.get_weight_penalty_ratio, in percent
get_weight_penalty_ratio(self) ==
    LET w == self.avg_weight_kg
    IN  IF 1050 <= w /\ w <= 1150 THEN 0
        ELSE IF 1000 <= w /\ w <= 1200 THEN 15
        ELSE 20

\* The engine is not running: no scenario, nothing planned
SolverAtRest ==
    /\ SolverInit
    /\ raw_farm_data = << >>
    /\ rng_growth = 0
    /\ rng_revenue = 0

PenaltyInit ==
    /\ SolverAtRest
    /\ ApiAtRest
    /\ WorkersAtRest
    /\ weight_in \in MinWeight..MaxWeight
    /\ ratios = None

\* The three implementations are applied to the weight
Classify ==
    /\ ratios = None
    /\ ratios' = [router |-> penalty_ratio(weight_in),
                  model |-> get_weight_penalty_ratio([avg_weight_kg |-> weight_in]),
                  batch |-> BatchPenalty(weight_in)]
    /\ UNCHANGED << weight_in, solverVars, apiVars, workerVars >>

PenaltyNext == Classify

PenaltySpec == PenaltyInit /\ [][PenaltyNext]_vars

\* C17: the penalty ratio is 0 for 105 <= w <= 115, 0.15 for 100 <= w < 105
\* and for 115 < w <= 120, and 0.20 otherwise, and the router's function,
\* the Farm model's method and the classification in calculate_revenue_batch
\* give that same ratio for every weight.
C17_PenaltyRatio ==
    (ratios # None) =>
        LET w == weight_in
            claimed == IF 1050 <= w /\ w <= 1150 THEN 0
                       ELSE IF (1000 <= w /\ w < 1050) \/ (1150 < w /\ w <= 1200)
                            THEN 15
                            ELSE 20
        IN  /\ ratios.router = claimed
            /\ ratios.model = claimed
            /\ ratios.batch = claimed

\* The weight 120.0 kg, the closed upper end of the 15% band, was classified
C17_Witness ==
    /\ ratios # None
    /\ weight_in = 1200
    /\ ratios.router = 15

\* ------------------------------------------------------------------ the store
\* A table is the sequence of its rows in insertion order; a row is a record
\* that carries its primary key. Weights are in tenths of a kg, capacities of
\* trucks in tons, latitudes in km north of the slaughterhouse.

\* The number of requests a run of the server is followed for
MaxRequests == 3

\* str(uuid.uuid4()): the identifiers the server can draw
Uuids == {"u1", "u2"}

\* The rows of a table whose primary key is id
RowsWithKey(table, key, id) ==
    {i \in 1..Len(table) : table[i][key] = id}

\* db.query(Model).filter(Model.key == id).first(): the row's index, 0 for None
QueryFirst(table, key, id) ==
    LET found == RowsWithKey(table, key, id)
    IN  IF found = {} THEN 0 ELSE CHOOSE i \in found : \A j \in found : i <= j

\* The table without its row i
DeleteRow(table, i) ==
    [k \in 1..(Len(table) - 1) |-> IF k < i THEN table[k] ELSE table[k + 1]]

\* setattr(db_obj, field, value) for every field of update_data
SetFields(row, update_data) ==
    [f \in DOMAIN row |->
        IF f \in DOMAIN update_data THEN update_data[f] ELSE row[f]]

\* Model(pk=id, **fields): the keyword arguments of the constructor call; a
\* keyword given twice is a TypeError
KeywordClash(key, fields) == key \in DOMAIN fields

\* The row Model(pk=id, **fields) builds
NewRow(key, id, fields) ==
    [f \in (DOMAIN fields) \cup {key} |-> IF f = key THEN id ELSE fields[f]]

\* What requests carry
FarmCreateBodies ==
    {[farm_id |-> "F9", lat |-> 4, inventory_pigs |-> 30, avg_weight_kg |-> 1100]}

TransportCreateBodies == {[capacity_tons |-> 15, cost_per_km |-> 120]}

SlaughterhouseCreateBodies ==
    {[lat |-> 0, capacity_per_day |-> 100, price_per_kg |-> 156]}

FarmUpdateBodies ==
    {[inventory_pigs |-> 0], [inventory_pigs |-> 40, avg_weight_kg |-> 1190]}

TransportUpdateBodies == {[capacity_tons |-> 1]}

SlaughterhouseUpdateBodies == {[capacity_per_day |-> 50]}

\* The ids requests name: the ids of the rows and an id no row has
IdsAsked(table, key) ==
    {table[i][key] : i \in 1..Len(table)} \cup {"nobody", "F9"}

\* A request is handled: the bound on a run, and the count
Handle ==
    /\ requests < MaxRequests
    /\ requests' = requests + 1

\* The three entity kinds, their tables and primary keys
Kinds == {"farm", "transport", "slaughterhouse"}

Table(kind) ==
    CASE kind = "farm" -> db_farms
      [] kind = "transport" -> db_transports
      [] kind = "slaughterhouse" -> db_slaughterhouses

Key(kind) ==
    CASE kind = "farm" -> "farm_id"
      [] kind = "transport" -> "transport_id"
      [] kind = "slaughterhouse" -> "slaughterhouse_id"

CreateBodies(kind) ==
    CASE kind = "farm" -> FarmCreateBodies
      [] kind = "transport" -> TransportCreateBodies
      [] kind = "slaughterhouse" -> SlaughterhouseCreateBodies

UpdateBodies(kind) ==
    CASE kind = "farm" -> FarmUpdateBodies
      [] kind = "transport" -> TransportUpdateBodies
      [] kind = "slaughterhouse" -> SlaughterhouseUpdateBodies

\* db.commit() of a session that worked on the table of one kind
CommitTable(kind, table) ==
    /\ db_farms' = IF kind = "farm" THEN table ELSE db_farms
    /\ db_transports' = IF kind = "transport" THEN table ELSE db_transports
    /\ db_slaughterhouses' =
           IF kind = "slaughterhouse" THEN table ELSE db_slaughterhouses

\* create_farm / create_transport / create_slaughterhouse of the services:
\* Model(pk=str(uuid.uuid4()), **body.model_dump()), add, commit, refresh
create_entity(table, key, uuid, body) ==
    IF KeywordClash(key, body)
    THEN [table |-> table, raised |-> TRUE, obj |-> None]
    ELSE LET db_obj == NewRow(key, uuid, body)
         IN  [table |-> Append(table, db_obj), raised |-> FALSE, obj |-> db_obj]

\* get_farm / get_transport / get_slaughterhouse of the services
get_entity(table, key, id) ==
    LET i == QueryFirst(table, key, id)
    IN  IF i = 0 THEN None ELSE table[i]

\* update_farm / update_transport / update_slaughterhouse of the services
update_entity(table, key, id, body) ==
    LET i == QueryFirst(table, key, id)
    IN  IF i = 0 THEN [table |-> table, obj |-> None]
        ELSE [table |-> [table EXCEPT ![i] = SetFields(@, body)],
              obj |-> SetFields(table[i], body)]

\* Variant of delete_entity: the first row goes, whatever its id
delete_entity_first_row(table, key, id) ==
    IF Len(table) = 0 THEN [table |-> table, deleted |-> FALSE]
    ELSE [table |-> DeleteRow(table, 1), deleted |-> TRUE]

\* delete_farm / delete_transport / delete_slaughterhouse of the services
delete_entity(table, key, id) ==
    LET i == QueryFirst(table, key, id)
    IN  IF i = 0 THEN [table |-> table, deleted |-> FALSE]
        ELSE [table |-> DeleteRow(table, i), deleted |-> TRUE]

\* The day counter is the simulation endpoints' own
CrudFrame == UNCHANGED << CURRENT_DAY_INDEX, successes >>

\* The snapshot is the farms as they would be had no day been simulated: a
\* write to a farm through the store is a write to the snapshot too
SnapshotAfter(kind, table) ==
    snapshot' = IF kind = "farm" THEN table ELSE snapshot

\* POST /farms/, /transports/, /slaughterhouses/
CreateEntity ==
    /\ Handle
    /\ \E kind \in Kinds : \E body \in CreateBodies(kind) :
       \E uuid \in Uuids \ {Table(kind)[i][Key(kind)] : i \in 1..Len(Table(kind))} :
         LET r == create_entity(Table(kind), Key(kind), uuid, body)
         IN  /\ CommitTable(kind, r.table)
             /\ SnapshotAfter(kind,
                    create_entity(snapshot, Key(kind), uuid, body).table)
             /\ response' = [op |-> "create", kind |-> kind, body |-> body,
                             status |-> IF r.raised THEN 500 ELSE 201,
                             obj |-> r.obj]
    /\ CrudFrame
    /\ UNCHANGED << solverVars, penaltyVars, workerVars >>

\* GET /farms/{id}, /transports/{id}, /slaughterhouses/{id}
GetEntity ==
    /\ Handle
    /\ \E kind \in Kinds : \E id \in IdsAsked(Table(kind), Key(kind)) :
         LET obj == get_entity(Table(kind), Key(kind), id)
         IN  response' = [op |-> "get", kind |-> kind, id |-> id,
                          status |-> IF obj = None THEN 404 ELSE 200,
                          obj |-> obj]
    /\ CrudFrame
    /\ UNCHANGED << db_farms, db_transports, db_slaughterhouses, snapshot >>
    /\ UNCHANGED << solverVars, penaltyVars, workerVars >>

\* PATCH /farms/{id}, /transports/{id}, /slaughterhouses/{id}
UpdateEntity ==
    /\ Handle
    /\ \E kind \in Kinds : \E id \in IdsAsked(Table(kind), Key(kind)) :
       \E body \in UpdateBodies(kind) :
         LET r == update_entity(Table(kind), Key(kind), id, body)
         IN  /\ CommitTable(kind, r.table)
             /\ SnapshotAfter(kind,
                    update_entity(snapshot, Key(kind), id, body).table)
             /\ response' = [op |-> "update", kind |-> kind, id |-> id,
                             status |-> IF r.obj = None THEN 404 ELSE 200,
                             obj |-> r.obj]
    /\ CrudFrame
    /\ UNCHANGED << solverVars, penaltyVars, workerVars >>

\* DELETE /farms/{id}, /transports/{id}, /slaughterhouses/{id}
DeleteEntity ==
    /\ Handle
    /\ \E kind \in Kinds : \E id \in IdsAsked(Table(kind), Key(kind)) :
         LET r == delete_entity(Table(kind), Key(kind), id)
         IN  /\ CommitTable(kind, r.table)
             /\ SnapshotAfter(kind,
                    delete_entity(snapshot, Key(kind), id).table)
             /\ response' = [op |-> "delete", kind |-> kind, id |-> id,
                             status |-> IF r.deleted THEN 204 ELSE 404,
                             obj |-> None]
    /\ CrudFrame
    /\ UNCHANGED << solverVars, penaltyVars, workerVars >>

\* ------------------------------------------------- the simulation endpoints
\* payload.growth_rate, in tenths of a kg
GrowthRates == {9, 60}

\* haversine_km for two points of the slaughterhouse's meridian
haversine_km(lat1, lat2) == Abs(lat2 - lat1)

\* simulate_next_day, step 1: the farms with animals grow
NextDayGrowth(table, growth) ==
    [i \in 1..Len(table) |->
        IF table[i].inventory_pigs > 0
        THEN [table[i] EXCEPT !.avg_weight_kg = @ + growth]
        ELSE table[i]]

\* farm_priority: (not in_opt, dist_to_ideal, -inventory_pigs)
farm_priority(f) ==
    << IF 1050 <= f.avg_weight_kg /\ f.avg_weight_kg <= 1150 THEN 0 ELSE 1,
       Abs(f.avg_weight_kg - 1100),
       0 - f.inventory_pigs >>

\* Python's order on tuples of three numbers
TupleLess(a, b) ==
    \/ a[1] < b[1]
    \/ a[1] = b[1] /\ a[2] < b[2]
    \/ a[1] = b[1] /\ a[2] = b[2] /\ a[3] < b[3]

\* sorted(farms, key=farm_priority), as the indices of the rows: x is put
\* after every index whose priority is not greater (the sort is stable)
RECURSIVE InsertByPriority(_, _, _)
InsertByPriority(x, sorted, table) ==
    IF sorted = << >> THEN << x >>
    ELSE IF TupleLess(farm_priority(table[x]), farm_priority(table[Head(sorted)]))
         THEN << x >> \o sorted
         ELSE << Head(sorted) >> \o InsertByPriority(x, Tail(sorted), table)

RECURSIVE FarmsSorted(_, _, _)
FarmsSorted(table, i, acc) ==
    IF i > Len(table) THEN acc
    ELSE IF table[i].inventory_pigs > 0
         THEN FarmsSorted(table, i + 1, InsertByPriority(i, acc, table))
         ELSE FarmsSorted(table, i + 1, acc)

\* sorted(transports, key=capacity_tons, reverse=True)[0]: the first row of
\* the greatest capacity
MainTruck(transports) ==
    transports[CHOOSE i \in 1..Len(transports) :
                  /\ \A j \in 1..Len(transports) :
                         transports[j].capacity_tons <= transports[i].capacity_tons
                  /\ \A j \in 1..(i - 1) :
                         transports[j].capacity_tons < transports[i].capacity_tons]

RECURSIVE SumWeights(_, _)
SumWeights(group, table) ==
    IF group = << >> THEN 0
    ELSE table[Head(group)].avg_weight_kg + SumWeights(Tail(group), table)

\* int(truck_capacity_kg / max(avg_group_weight, 1.0))
TruckCapacityPigs(truck_capacity_kg, group, table) ==
    LET total == SumWeights(group, table)
    IN  IF total < 10 * Len(group) THEN truck_capacity_kg
        ELSE (truck_capacity_kg * 10 * Len(group)) \div total

\* The loop over the farms of one group, from its k-th farm on; st holds the
\* table, truck_remaining_pigs, remaining_capacity, total_pigs_this_route,
\* shipped_by_farm (keyed by the farm's row) and route_farms
RECURSIVE LoadGroup(_, _, _)
LoadGroup(group, k, st) ==
    IF k > Len(group) THEN st
    ELSE IF st.truck_remaining_pigs <= 0 \/ st.remaining_capacity <= 0 THEN st
    ELSE LET i == group[k]
             farm == st.table[i]
             pigs_to_take == Min(Min(farm.inventory_pigs, st.truck_remaining_pigs),
                                 st.remaining_capacity)
         IN  IF farm.inventory_pigs <= 0 \/ pigs_to_take <= 0
             THEN LoadGroup(group, k + 1, st)
             ELSE LoadGroup(group, k + 1,
                    [table |-> [st.table EXCEPT ![i].inventory_pigs = @ - pigs_to_take],
                     truck_remaining_pigs |-> st.truck_remaining_pigs - pigs_to_take,
                     remaining_capacity |-> st.remaining_capacity - pigs_to_take,
                     total_pigs_this_route |-> st.total_pigs_this_route + pigs_to_take,
                     shipped_by_farm |->
                         [j \in DOMAIN st.shipped_by_farm \cup {i} |->
                             IF j = i
                             THEN (IF i \in DOMAIN st.shipped_by_farm
                                   THEN st.shipped_by_farm[i] ELSE 0) + pigs_to_take
                             ELSE st.shipped_by_farm[j]],
                     route_farms |-> Append(st.route_farms, i)])

\* total_distance_km over matadero -> route_farms -> matadero
RECURSIVE PathDistance(_, _, _, _)
PathDistance(route_farms, table, from, home) ==
    IF route_farms = << >> THEN haversine_km(from, home)
    ELSE haversine_km(from, table[Head(route_farms)].lat)
         + PathDistance(Tail(route_farms), table, table[Head(route_farms)].lat, home)

\* Route(truck_type, path, stops, pigs_transported, cost); the path is kept as
\* the latitudes it goes through
MakeRoute(route_farms, table, total_pigs_this_route, main_truck, slaughterhouse) ==
    [truck_type |-> main_truck.capacity_tons,
     path |-> << slaughterhouse.lat >>
              \o [k \in 1..Len(route_farms) |-> table[route_farms[k]].lat]
              \o << slaughterhouse.lat >>,
     stops |-> [k \in 1..Len(route_farms) |-> table[route_farms[k]].farm_id],
     pigs_transported |-> total_pigs_this_route,
     cost |-> PathDistance(route_farms, table, slaughterhouse.lat, slaughterhouse.lat)
              * main_truck.cost_per_km]

\* for i in range(0, len(farms_sorted), 3): one route per group of three,
\* from the group that starts after the first i farms; st holds the table,
\* remaining_capacity, shipped_by_farm and routes
RECURSIVE PlanGroups(_, _, _, _, _)
PlanGroups(farms_sorted, i, st, main_truck, slaughterhouse) ==
    IF i >= Len(farms_sorted) THEN st
    ELSE IF st.remaining_capacity <= 0 THEN st
    ELSE LET group == SubSeq(farms_sorted, i + 1, Min(i + 3, Len(farms_sorted)))
             truck_capacity_pigs ==
                 TruckCapacityPigs(main_truck.capacity_tons * 1000, group, st.table)
             truck_remaining_pigs == Min(truck_capacity_pigs, st.remaining_capacity)
         IN  IF truck_remaining_pigs <= 0 THEN st
             ELSE LET done == CHOOSE d \in {LoadGroup(group, 1,
                                   [table |-> st.table,
                                    truck_remaining_pigs |-> truck_remaining_pigs,
                                    remaining_capacity |-> st.remaining_capacity,
                                    total_pigs_this_route |-> 0,
                                    shipped_by_farm |-> st.shipped_by_farm,
                                    route_farms |-> << >>])} : TRUE
                  IN  PlanGroups(farms_sorted, i + 3,
                        [table |-> done.table,
                         remaining_capacity |-> done.remaining_capacity,
                         shipped_by_farm |-> done.shipped_by_farm,
                         routes |-> IF done.total_pigs_this_route <= 0
                                    THEN st.routes
                                    ELSE Append(st.routes,
                                           MakeRoute(done.route_farms, done.table,
                                                     done.total_pigs_this_route,
                                                     main_truck, slaughterhouse))],
                        main_truck, slaughterhouse)

\* FarmUpdate(id, new_weight, pigs_remaining, status) for every farm
FarmUpdates(table, shipped_by_farm) ==
    [i \in 1..Len(table) |->
        [id |-> table[i].farm_id,
         new_weight |-> table[i].avg_weight_kg,
         pigs_remaining |-> table[i].inventory_pigs,
         status |-> IF table[i].inventory_pigs = 0 THEN "empty"
                    ELSE IF i \in DOMAIN shipped_by_farm THEN "visited"
                    ELSE "growing"]]

RECURSIVE SumCosts(_)
SumCosts(routes) ==
    IF routes = << >> THEN 0 ELSE Head(routes).cost + SumCosts(Tail(routes))

\* sum(shipped_by_farm.values()): every animal shipped is on one route
RECURSIVE SumTransported(_)
SumTransported(routes) ==
    IF routes = << >> THEN 0
    ELSE Head(routes).pigs_transported + SumTransported(Tail(routes))

\* The farms the query Farm.inventory_pigs > 0 returns
StockedFarms(table) == {i \in 1..Len(table) : table[i].inventory_pigs > 0}

\* Variant of the handler's answer to an empty farm query: the growth of the
\* day is committed before the 400 is raised
NextDayRefusalGrowsFirst(table, growth) ==
    [i \in 1..Len(table) |-> [table[i] EXCEPT !.avg_weight_kg = @ + growth]]

\* What the store holds after a request refused with an HTTPException: the
\* three checks come before the first assignment to a row
NextDayRefusal(table, growth) == table

\* Variant of the day counter's step: the counter is left as it was
NextDayIndexKept(index) == index

\* CURRENT_DAY_INDEX += 1, done before the response is built
NextDayIndex(index) == index + 1

\* POST /simulation/next-day. The revenue figure and the log lines of the
\* response are derived from the fields below and are not represented.
SimulateNextDay ==
    /\ Handle
    /\ \E growth \in GrowthRates :
         IF db_slaughterhouses = << >>
         THEN /\ response' = [op |-> "next-day", status |-> 500,
                              detail |-> "No hay mataderos en la base de datos"]
              /\ db_farms' = NextDayRefusal(db_farms, growth)
              /\ UNCHANGED << CURRENT_DAY_INDEX, successes >>
         ELSE IF db_transports = << >>
         THEN /\ response' = [op |-> "next-day", status |-> 500,
                              detail |-> "No hay camiones en la base de datos"]
              /\ db_farms' = NextDayRefusal(db_farms, growth)
              /\ UNCHANGED << CURRENT_DAY_INDEX, successes >>
         ELSE IF StockedFarms(db_farms) = {}
         THEN /\ response' = [op |-> "next-day", status |-> 400,
                              detail |-> "No hay cerdos disponibles en ninguna granja"]
              /\ db_farms' = NextDayRefusal(db_farms, growth)
              /\ UNCHANGED << CURRENT_DAY_INDEX, successes >>
         ELSE \E slaughterhouse \in {db_slaughterhouses[1]} :
              \E main_truck \in {MainTruck(db_transports)} :
              \E grown \in {NextDayGrowth(db_farms, growth)} :
              \E farms_sorted \in {FarmsSorted(grown, 1, << >>)} :
              \E done \in {PlanGroups(farms_sorted, 0,
                              [table |-> grown,
                               remaining_capacity |-> slaughterhouse.capacity_per_day,
                               shipped_by_farm |-> << >>,
                               routes |-> << >>],
                              main_truck, slaughterhouse)} :
                /\ db_farms' = done.table
                /\ CURRENT_DAY_INDEX' = NextDayIndex(CURRENT_DAY_INDEX)
                /\ successes' = successes + 1
                /\ response' = [op |-> "next-day", status |-> 200,
                                day_index |-> NextDayIndex(CURRENT_DAY_INDEX),
                                routes |-> done.routes,
                                kpis |-> [daily_cost |-> SumCosts(done.routes),
                                          total_pigs |-> SumTransported(done.routes)],
                                farm_updates |-> FarmUpdates(done.table,
                                                             done.shipped_by_farm)]
    /\ UNCHANGED << db_transports, db_slaughterhouses, snapshot >>
    /\ UNCHANGED << solverVars, penaltyVars, workerVars >>

\* POST /simulation/reset
ResetSimulation ==
    /\ Handle
    /\ CURRENT_DAY_INDEX' = 0
    /\ successes' = 0
    /\ response' = [op |-> "reset", status |-> 200, ok |-> TRUE]
    /\ UNCHANGED << db_farms, db_transports, db_slaughterhouses, snapshot >>
    /\ UNCHANGED << solverVars, penaltyVars, workerVars >>

\* What seed_data.py puts in the store, scaled down: one slaughterhouse, a
\* small and a big truck, and farms below, inside and above the weight bands
SeedSlaughterhouses ==
    << [slaughterhouse_id |-> "S1", lat |-> 0, capacity_per_day |-> 20,
        price_per_kg |-> 156] >>

SeedTransports ==
    << [transport_id |-> "t_small", capacity_tons |-> 1, cost_per_km |-> 115],
       [transport_id |-> "t_big", capacity_tons |-> 2, cost_per_km |-> 125] >>

SeedFarms ==
    << [farm_id |-> "F1", lat |-> 1, inventory_pigs |-> 6, avg_weight_kg |-> 985],
       [farm_id |-> "F2", lat |-> 0 - 1, inventory_pigs |-> 9, avg_weight_kg |-> 1120],
       [farm_id |-> "F3", lat |-> 2, inventory_pigs |-> 4, avg_weight_kg |-> 1053],
       [farm_id |-> "F4", lat |-> 0 - 2, inventory_pigs |-> 5, avg_weight_kg |-> 1187] >>

\* Farms of uneven weights: a stocked farm at the top of the optimal range and
\* two small farms of light animals
UnevenFarms ==
    << [farm_id |-> "F1", lat |-> 1, inventory_pigs |-> 20, avg_weight_kg |-> 1140],
       [farm_id |-> "F2", lat |-> 0 - 1, inventory_pigs |-> 5, avg_weight_kg |-> 950],
       [farm_id |-> "F3", lat |-> 2, inventory_pigs |-> 5, avg_weight_kg |-> 960] >>

\* The stores a run of the service starts from: the seeded one, one with
\* farms of uneven weights, and stores that lack a prerequisite of next-day
Stores ==
    {[farms |-> SeedFarms, transports |-> SeedTransports,
      slaughterhouses |-> SeedSlaughterhouses],
     [farms |-> UnevenFarms, transports |-> SeedTransports,
      slaughterhouses |-> SeedSlaughterhouses],
     [farms |-> SeedFarms, transports |-> SeedTransports,
      slaughterhouses |-> << >>],
     [farms |-> SeedFarms, transports |-> << >>,
      slaughterhouses |-> SeedSlaughterhouses],
     [farms |-> [i \in 1..2 |-> [SeedFarms[i] EXCEPT !.inventory_pigs = 0]],
      transports |-> SeedTransports,
      slaughterhouses |-> SeedSlaughterhouses],
     [farms |-> << >>, transports |-> << >>, slaughterhouses |-> << >>]}

ApiInit ==
    /\ SolverAtRest
    /\ PenaltyAtRest
    /\ WorkersAtRest
    /\ \E store \in Stores :
         /\ db_farms = store.farms
         /\ db_transports = store.transports
         /\ db_slaughterhouses = store.slaughterhouses
         /\ snapshot = store.farms
    /\ CURRENT_DAY_INDEX = 0
    /\ response = None
    /\ requests = 0
    /\ successes = 0

ApiNext ==
    \/ CreateEntity
    \/ GetEntity
    \/ UpdateEntity
    \/ DeleteEntity
    \/ SimulateNextDay
    \/ ResetSimulation

ApiSpec == ApiInit /\ [][ApiNext]_vars

\* ------------------------------------------------ claims on the store
\* A request was handled by this step
Handled == requests' = requests + 1

\* C18: a farm created with a caller-supplied farm_id is stored under that
\* id: the request is answered 201 and a following get with the id returns
\* the created farm.
C18_FarmStoredUnderGivenId ==
    (response # None /\ response.op = "create" /\ response.kind = "farm")
        => /\ response.status = 201
           /\ get_entity(db_farms, "farm_id", response.body.farm_id) # None
           /\ get_entity(db_farms, "farm_id", response.body.farm_id) = response.obj

\* The set of rows of a table
Rows(table) == {table[i] : i \in 1..Len(table)}

\* The tables of the store
Tables == << db_farms, db_transports, db_slaughterhouses >>

\* C19: update and delete on an id the store does not hold answer 404 and
\* leave every record as it was; delete on an id it holds removes that
\* record and no other, after which get for the id finds nothing.
C19_NotFoundAndDelete ==
    [][(Handled /\ response'.op \in {"update", "delete"}) =>
         LET kind == response'.kind
             key == Key(kind)
             id == response'.id
             before == Table(kind)
             after == CASE kind = "farm" -> db_farms'
                        [] kind = "transport" -> db_transports'
                        [] kind = "slaughterhouse" -> db_slaughterhouses'
         IN  /\ RowsWithKey(before, key, id) = {} =>
                   /\ response'.status = 404
                   /\ response'.obj = None
                   /\ Tables' = Tables
             /\ (response'.op = "delete" /\ RowsWithKey(before, key, id) # {}) =>
                   /\ response'.status = 204
                   /\ Len(after) = Len(before) - 1
                   /\ Rows(after) = {row \in Rows(before) : row[key] # id}
                   /\ \A other \in Kinds \ {kind} : Table(other)' = Table(other)
                   /\ get_entity(after, key, id) = None]_vars

C19_Witness ==
    /\ response # None
    /\ response.op = "delete"
    /\ response.kind = "farm"
    /\ response.status = 204
    /\ Len(db_farms) = Len(SeedFarms) - 1
    /\ get_entity(db_farms, "farm_id", response.id) = None

\* -------------------------------------- claims on the simulation endpoints
\* C11: after a reset, every farm has the inventory and the mean weight of
\* the initial snapshot, the day index is 0 and the answer is ok = true.
C11_ResetRestoresSnapshot ==
    (response # None /\ response.op = "reset")
        => /\ response.ok
           /\ CURRENT_DAY_INDEX = 0
           /\ db_farms = snapshot

\* C15: a next-day request to a store without a slaughterhouse, without
\* trucks or without a farm holding animals is refused (500, 500 and 400, in
\* the order the handler looks), and neither the day index nor any record of
\* the store changes.
C15_RefusalChangesNothing ==
    [][(Handled /\ response'.op = "next-day") =>
         LET refused == \/ db_slaughterhouses = << >>
                        \/ db_transports = << >>
                        \/ StockedFarms(db_farms) = {}
         IN  /\ refused =>
                   /\ response'.status =
                          IF db_slaughterhouses = << >> THEN 500
                          ELSE IF db_transports = << >> THEN 500
                          ELSE 400
                   /\ CURRENT_DAY_INDEX' = CURRENT_DAY_INDEX
                   /\ Tables' = Tables
             /\ ~refused => response'.status = 200]_vars

C15_Witness ==
    /\ response # None
    /\ response.op = "next-day"
    /\ response.status = 400
    /\ CURRENT_DAY_INDEX = 2
    /\ db_farms # << >>

\* C16: the k-th successful next-day call since the last reset answers
\* day_index = k: a successful call adds one to the day index and reports the
\* new value, a refused call leaves the index alone.
C16_DayIndexCounts ==
    [][(Handled /\ response'.op = "next-day") =>
         IF response'.status = 200
         THEN /\ CURRENT_DAY_INDEX' = CURRENT_DAY_INDEX + 1
              /\ successes' = successes + 1
              /\ response'.day_index = successes'
              /\ response'.day_index = CURRENT_DAY_INDEX'
         ELSE /\ CURRENT_DAY_INDEX' = CURRENT_DAY_INDEX
              /\ successes' = successes]_vars

\* Two days were simulated (the first farm grew twice) and the answer says
\* day 1: a reset came in between.
C16_Witness ==
    /\ response # None
    /\ response.op = "next-day"
    /\ response.status = 200
    /\ response.day_index = 1
    /\ successes = 1
    /\ db_farms # << >>
    /\ db_farms[1].farm_id = "F1"
    /\ db_farms[1].avg_weight_kg = SeedFarms[1].avg_weight_kg + 18

\* ------------------------------------------ claims on the multi-trip loop
\* C21 (as claimed): once the day's capacity is reached no further stop is
\* added to the route: every farm in the route of a committed trip had at
\* least one animal loaded from it.
C21_EveryStopLoads ==
    \A k \in 1..Len(trips_today) :
        \A j \in 1..Len(trips_today[k].route) : trips_today[k].loads[j] > 0

\* The candidate list is in descending order of urgency score
Descending(list) ==
    \A k \in 1..(Len(list) - 1) :
        farms[list[k]].urgency_score >= farms[list[k + 1]].urgency_score

\* C22 (as claimed): at every iteration of the multi-trip loop the candidate
\* list is in descending order of urgency score, so the seed popped from its
\* front has the highest score of the candidates left, also after
\* backtracking put farms back at the front.
C22_CandidatesDescending ==
    pc = "loop" => Descending(candidates)

\* The farms that were candidates when the day's loop began: in stock at the
\* call and either loaded today or last visited at least seven days ago
InitialCandidates ==
    {i \in 1..Len(farms) :
        /\ inv_before[i] > 0
        /\ \/ farms[i].last_visit_day = day_index
           \/ day_index - farms[i].last_visit_day >= 7}

\* The route being built, empty when no trip is under construction
RouteUnderConstruction ==
    IF truck # 0 /\ UnderConstruction(truck) THEN trucks[truck].route ELSE << >>

\* How many times x occurs in list
Occurrences(x, list) == Cardinality({k \in 1..Len(list) : list[k] = x})

\* What a trip that is not committed must leave alone
TripFrame ==
    << [i \in 1..Len(farms) |-> << farms[i].inventory, farms[i].last_visit_day >>],
       slaughtered_today,
       [t \in 1..Len(trucks) |-> trucks[t].daily_hours_used],
       total_profit, total_penalties, total_transport_cost, daily_log >>

\* C23: validation removes the last stop of the route, one at a time, while
\* the truck's hours plus the trip's duration exceed MAX_DAILY_HOURS, and puts
\* it back at the front of the candidates; a route that fits is accepted. A
\* route emptied this way is discarded: the truck does not come back to the
\* pool that day, every farm that was on the route is a candidate again, and
\* inventories, visit days, the day's count, the trucks' hours and the totals
\* are what they were.
C23_Backtracking ==
    /\ [][pc = "check" =>
            LET route == trucks[truck].route
                e == estimate_trip_time(trip_dist_km, Len(route))
            IN  IF trucks[truck].daily_hours_used + e <= MAX_DAILY_HOURS
                THEN /\ pc' = "commit"
                     /\ trucks'[truck].route = route
                     /\ candidates' = candidates
                ELSE /\ pc' = "validate"
                     /\ trucks'[truck].route = SubSeq(route, 1, Len(route) - 1)
                     /\ candidates' = << route[Len(route)] >> \o candidates]_vars
    /\ [][pc = "validate" =>
            IF trucks[truck].route = << >>
            THEN /\ pc' = "loop"
                 /\ ~InSeq(truck, active_trucks')
                 /\ candidates' = candidates
            ELSE pc' = "dist"]_vars
    /\ [][\A t \in 1..Len(trucks) :
             (InSeq(t, active_trucks') /\ ~InSeq(t, active_trucks))
                 => \/ pc = "idle"
                    \/ pc = "commit" /\ truck = t]_vars
    /\ [][(pc \in {"loop", "expand", "validate", "dist", "check"})
             => (TripFrame' = TripFrame)]_vars
    /\ [](pc \in {"loop", "expand", "validate", "dist", "check", "commit"} =>
             \A i \in InitialCandidates :
                 Occurrences(i, candidates)
                 + Occurrences(i, RouteUnderConstruction)
                 + (IF InSomeRoute(i) THEN 1 ELSE 0) = 1)

\* A trip was discarded: the truck had hours left after an earlier trip, its
\* route was emptied by backtracking and it is out of the pool, with the seed
\* back at the head of the candidates
C23_Witness ==
    /\ pc = "loop"
    /\ truck \in 1..Len(trucks)
    /\ trucks[truck].route = << >>
    /\ trucks[truck].daily_hours_used > 0
    /\ trucks[truck].daily_hours_used < MAX_DAILY_HOURS
    /\ ~InSeq(truck, active_trucks)
    /\ candidates # << >>
    /\ Head(candidates) = current_farm

\* C24: within a day the trucks are served first in, first out: the truck
\* that starts a trip is the head of the pool, a truck that commits a trip
\* goes to the end of the pool, behind every truck still waiting, and nothing
\* else changes the pool; a truck popped with daily_hours_used >=
\* MAX_DAILY_HOURS is dropped for the rest of the day and no candidate is
\* taken for it.
C24_TruckQueue ==
    /\ [][(pc = "loop" /\ pc' # "returned") =>
            /\ truck' = Head(active_trucks)
            /\ active_trucks' = Tail(active_trucks)
            /\ IF trucks[truck'].daily_hours_used >= MAX_DAILY_HOURS
               THEN /\ pc' = "loop"
                    /\ candidates' = candidates
                    /\ trucks'[truck'].route = << >>
               ELSE /\ pc' = "expand"
                    /\ candidates' = Tail(candidates)
                    /\ trucks'[truck'].route = << Head(candidates) >>]_vars
    /\ [][pc = "commit" =>
            /\ active_trucks' = active_trucks \o << truck >>
            /\ ~InSeq(truck, active_trucks)]_vars
    /\ [][(pc \notin {"idle", "loop", "commit"})
            => (active_trucks' = active_trucks)]_vars
    /\ [][\A t \in 1..Len(trucks) :
             (InSeq(t, active_trucks') /\ ~InSeq(t, active_trucks))
                 => \/ pc = "idle"
                    \/ pc = "commit" /\ truck = t]_vars
    /\ [](pc # "idle" =>
             \A t \in 1..Len(trucks) : Occurrences(t, active_trucks) <= 1)

\* A truck out of hours was popped and dropped while other trucks wait and
\* candidates are left, after two trucks made a trip one after the other
C24_Witness ==
    /\ pc = "loop"
    /\ truck \in 1..Len(trucks)
    /\ trucks[truck].daily_hours_used >= MAX_DAILY_HOURS
    /\ ~InSeq(truck, active_trucks)
    /\ active_trucks # << >>
    /\ candidates # << >>
    /\ \E k \in 1..(Len(trips_today) - 1) :
         trips_today[k].truck # trips_today[k + 1].truck

RECURSIVE SumProfit(_)
SumProfit(trips) ==
    IF trips = << >> THEN 0 ELSE Head(trips).profit + SumProfit(Tail(trips))

\* The log has one record per trip committed in this call, in commit order,
\* and its sums are those of the trips
LogMatchesTrips(log) ==
    /\ Len(log.trucks_ops) = Len(trips_today)
    /\ \A k \in 1..Len(trips_today) :
         /\ log.trucks_ops[k].truck_id = trucks[trips_today[k].truck].id
         /\ log.trucks_ops[k].route =
                [j \in 1..Len(trips_today[k].route) |->
                    farms[trips_today[k].route[j]].id]
         /\ log.trucks_ops[k].pigs_delivered = trips_today[k].pigs
         /\ log.trucks_ops[k].profit = trips_today[k].profit
    /\ log.total_processed = SumPigs(trips_today)
    /\ log.daily_profit = SumProfit(trips_today)

C27_NoUnderweightLoaded ==
    /\ \A k \in 1..Len(trips_today) :
           \A j \in 1..Len(trips_today[k].route) :
               farms[trips_today[k].route[j]].avg_weight >= OPTIMAL_MIN_WEIGHT
    /\ pc \in {"expand", "validate", "dist", "check", "commit"} =>
           \A j \in 1..Len(trucks[truck].route) :
               LET f == farms[trucks[truck].route[j]]
               IN  /\ f.avg_weight >= OPTIMAL_MIN_WEIGHT
                   /\ (j = 1 /\ pc = "expand") => f.urgency_score >= 0

\* A trip of several stops was committed on a day when a farm with animals,
\* past its lock-out, was below OPTIMAL_MIN_WEIGHT
C27_Witness ==
    /\ pc = "loop"
    /\ \E k \in 1..Len(trips_today) : Len(trips_today[k].route) >= 2
    /\ \E i \in 1..Len(farms) :
           /\ IsCandidate(farms[i], day_index)
           /\ farms[i].avg_weight < OPTIMAL_MIN_WEIGHT
           /\ InSeq(i, candidates)

\* C28: whenever a truck's route is empty, its current_load_kg and pigs_loaded
\* are 0, also after a trip was discarded because backtracking emptied the
\* route, and after plan_day has returned.
C28_EmptyRouteEmptyTruck ==
    \A t \in 1..Len(trucks) :
        trucks[t].route = << >> =>
            trucks[t].current_load_kg = 0 /\ trucks[t].pigs_loaded = 0

\* ------------------------------------------------ claims on the adapter's routes
\* The live weight on a route (tenths of kg): over its stops, the animals the
\* call took from the farm times the farm's mean weight after the growth of
\* the day.  A farm is in one group only, so what it lost in the call is what
\* its route took.
RECURSIVE LiveWeight(_, _, _)
LiveWeight(stops, before, after) ==
    IF stops = << >> THEN 0
    ELSE LET i == CHOOSE k \in 1..Len(before) : before[k].farm_id = Head(stops)
         IN  (before[i].inventory_pigs - after[i].inventory_pigs)
                 * after[i].avg_weight_kg
             + LiveWeight(Tail(stops), before, after)

\* A next-day request is answered with a plan in this step
NextDayPlanned ==
    /\ requests' = requests + 1
    /\ response'.op = "next-day"
    /\ response'.status = 200

\* C30: for every route the next-day adapter emits, the live weight loaded
\* does not exceed the capacity in kg of the truck used, the route has at most
\* 3 stops, and the animals shipped over all routes of the call do not exceed
\* the slaughterhouse's capacity_per_day.
C30_RoutesWithinCapacity ==
    [][NextDayPlanned =>
          /\ \A r \in 1..Len(response'.routes) :
                LET route == response'.routes[r]
                IN  /\ LiveWeight(route.stops, db_farms, db_farms')
                           <= route.truck_type * 1000 * 10
                    /\ Len(route.stops) <= 3
          /\ SumTransported(response'.routes)
                 <= db_slaughterhouses[1].capacity_per_day]_vars

\* ------------------------------------- the distance oracle, called concurrently
\* Planning invocations of one process that share CACHE_DISTANCES: each worker
\* calls get_real_road_distance once, for the leg from the hub to a farm of
\* the scenario.  The function takes no lock, so another worker can run
\* between its membership test, its request and its store.

\* What the routing service or the fallback gives for a leg
RoutingAnswer(lat1, lat2, outcome) ==
    IF outcome = "routed"
    THEN get_haversine_estimate(lat1, lat2) + road_extra
    ELSE get_haversine_estimate(lat1, lat2)

\* cache_key in CACHE_DISTANCES: a hit returns, a miss goes on to the request
QueryLookup(w) ==
    /\ queries[w].pc = "idle"
    /\ USE_REAL_ROADS_API
    /\ \E i \in 1..Len(raw_farm_data) :
         LET cache_key == CacheKey(SLAUGHTERHOUSE_LOC, raw_farm_data[i].lat)
         IN  IF cache_key \in DOMAIN CACHE_DISTANCES
             THEN /\ queries' = [queries EXCEPT ![w] =
                                    [pc |-> "done", cache_key |-> cache_key,
                                     dist |-> CACHE_DISTANCES[cache_key],
                                     how |-> "hit"]]
                  /\ last_outcome' = "hit"
             ELSE /\ queries' = [queries EXCEPT ![w] =
                                    [pc |-> "miss", cache_key |-> cache_key,
                                     dist |-> 0, how |-> "none"]]
                  /\ UNCHANGED last_outcome
    /\ UNCHANGED << CACHE_DISTANCES, osrm_requests >>

\* urlopen(url, timeout=1) and the parsing of its answer, or the fallback
QueryRequest(w) ==
    /\ queries[w].pc = "miss"
    /\ \E outcome \in Outcomes :
         queries' = [queries EXCEPT
                        ![w].pc = "answered",
                        ![w].dist = RoutingAnswer(queries[w].cache_key[1],
                                                  queries[w].cache_key[2], outcome),
                        ![w].how = outcome]
    /\ osrm_requests' = osrm_requests + 1
    /\ UNCHANGED << CACHE_DISTANCES, last_outcome >>

\* CACHE_DISTANCES[cache_key] = ...: the assignment replaces a value stored
\* in the meantime
QueryStore(w) ==
    /\ queries[w].pc = "answered"
    /\ CACHE_DISTANCES' =
           (queries[w].cache_key :> queries[w].dist) @@ CACHE_DISTANCES
    /\ last_outcome' = queries[w].how
    /\ queries' = [queries EXCEPT ![w].pc = "done"]
    /\ UNCHANGED osrm_requests

\* What the oracle's steps leave alone
QueryFrame ==
    UNCHANGED << raw_farm_data, road_extra, rng_growth, rng_revenue, simVars,
                 daily_logs, ctlVars, pc, frameVars, apiVars, penaltyVars,
                 handlers >>

CacheInit ==
    /\ SolverInit
    /\ rng_growth = 0
    /\ rng_revenue = 0
    /\ ApiAtRest
    /\ PenaltyAtRest
    /\ WorkersAtRest

CacheNext ==
    \E w \in Workers :
        \/ QueryLookup(w) /\ QueryFrame
        \/ QueryRequest(w) /\ QueryFrame
        \/ QueryStore(w) /\ QueryFrame

CacheSpec == CacheInit /\ [][CacheNext]_vars

\* C26: the distance cache is protected by mutual exclusion.  At most one
\* worker at a time is between the membership test that missed and its store,
\* and no two workers have both sent a request and both stored a value for
\* the same key.
C26_CacheMutualExclusion ==
    \A v, w \in Workers :
        v # w =>
            /\ ~(queries[v].pc \in {"miss", "answered"}
                 /\ queries[w].pc \in {"miss", "answered"})
            /\ ~(/\ queries[v].pc = "done" /\ queries[v].how \in Outcomes
                 /\ queries[w].pc = "done" /\ queries[w].how \in Outcomes
                 /\ queries[v].cache_key = queries[w].cache_key)

\* --------------------------------------- simulate_next_day, handled concurrently
\* The endpoint is a plain def, which the framework runs in a thread pool:
\* two requests are handled by two workers that share the store and the
\* module-level CURRENT_DAY_INDEX.  Each worker handles one request.  Its
\* steps are the queries and the planning on its own session, db.commit(),
\* the read and the write of `CURRENT_DAY_INDEX += 1`, and the read of
\* CURRENT_DAY_INDEX for the response.  The KPIs, farm updates and log lines
\* of the response are not represented.

\* Lines 122-224: the three queries, their refusals, the growth and the plan,
\* all on the rows of the worker's session
NextDayQuery(w) ==
    /\ handlers[w].pc = "idle"
    /\ \E growth \in GrowthRates :
         IF db_slaughterhouses = << >> \/ db_transports = << >>
         THEN handlers' = [handlers EXCEPT
                  ![w].pc = "done",
                  ![w].response = [op |-> "next-day", status |-> 500]]
         ELSE IF StockedFarms(db_farms) = {}
         THEN handlers' = [handlers EXCEPT
                  ![w].pc = "done",
                  ![w].response = [op |-> "next-day", status |-> 400]]
         ELSE \E grown \in {NextDayGrowth(db_farms, growth)} :
              \E farms_sorted \in {FarmsSorted(grown, 1, << >>)} :
              \E done \in {PlanGroups(farms_sorted, 0,
                              [table |-> grown,
                               remaining_capacity |->
                                   db_slaughterhouses[1].capacity_per_day,
                               shipped_by_farm |-> << >>,
                               routes |-> << >>],
                              MainTruck(db_transports), db_slaughterhouses[1])} :
                handlers' = [handlers EXCEPT
                    ![w].pc = "commit",
                    ![w].stocked = StockedFarms(db_farms),
                    ![w].table = done.table,
                    ![w].shipped_by_farm = done.shipped_by_farm,
                    ![w].routes = done.routes]
    /\ UNCHANGED << db_farms, CURRENT_DAY_INDEX >>

\* Line 227, db.commit(): the session writes the attributes it changed, the
\* weight of every farm it read and the inventory of every farm it shipped from
NextDayCommit(w) ==
    /\ handlers[w].pc = "commit"
    /\ db_farms' =
           [i \in 1..Len(db_farms) |->
               IF i \notin handlers[w].stocked THEN db_farms[i]
               ELSE [db_farms[i] EXCEPT
                       !.avg_weight_kg = handlers[w].table[i].avg_weight_kg,
                       !.inventory_pigs =
                           IF i \in DOMAIN handlers[w].shipped_by_farm
                           THEN handlers[w].table[i].inventory_pigs
                           ELSE @]]
    /\ handlers' = [handlers EXCEPT ![w].pc = "load"]
    /\ UNCHANGED CURRENT_DAY_INDEX

\* Line 291, CURRENT_DAY_INDEX += 1: the global is read ...
NextDayLoadIndex(w) ==
    /\ handlers[w].pc = "load"
    /\ handlers' = [handlers EXCEPT ![w].pc = "store",
                                    ![w].index = CURRENT_DAY_INDEX]
    /\ UNCHANGED << db_farms, CURRENT_DAY_INDEX >>

\* ... and the sum is written back
NextDayStoreIndex(w) ==
    /\ handlers[w].pc = "store"
    /\ CURRENT_DAY_INDEX' = NextDayIndex(handlers[w].index)
    /\ handlers' = [handlers EXCEPT ![w].pc = "respond"]
    /\ UNCHANGED db_farms

\* Lines 293-299: the response is built with the global read again
NextDayRespond(w) ==
    /\ handlers[w].pc = "respond"
    /\ handlers' = [handlers EXCEPT
           ![w].pc = "done",
           ![w].response = [op |-> "next-day", status |-> 200,
                            day_index |-> CURRENT_DAY_INDEX,
                            routes |-> handlers[w].routes]]
    /\ UNCHANGED << db_farms, CURRENT_DAY_INDEX >>

\* What the workers' steps leave alone
NextDayFrame ==
    UNCHANGED << solverVars, penaltyVars, queries, db_transports,
                 db_slaughterhouses, response, snapshot, requests, successes >>

ConcurrentNext ==
    \E w \in Workers :
        \/ NextDayQuery(w) /\ NextDayFrame
        \/ NextDayCommit(w) /\ NextDayFrame
        \/ NextDayLoadIndex(w) /\ NextDayFrame
        \/ NextDayStoreIndex(w) /\ NextDayFrame
        \/ NextDayRespond(w) /\ NextDayFrame

ConcurrentSpec == ApiInit /\ [][ConcurrentNext]_vars

\* C29: when two successful next-day requests are handled concurrently, the
\* day index ends up increased by exactly 2 and the two responses carry
\* different day_index values.
C29_ConcurrentNextDay ==
    \A v, w \in Workers :
        (/\ v # w
         /\ handlers[v].pc = "done" /\ handlers[v].response.status = 200
         /\ handlers[w].pc = "done" /\ handlers[w].response.status = 200)
        => /\ CURRENT_DAY_INDEX = 2
           /\ handlers[v].response.day_index # handlers[w].response.day_index

====
